---- MODULE Spec2Model ----
(***************************************************************************)
(* Event-sourcing write path of the CQRS task manager:                     *)
(*   TaskAggregate / AggregateRoot      (src/types/core.ts)                *)
(*   EventSourcedTaskRepository         (src/config/logger.ts)             *)
(*   PostgreSQLEventStore               (unnamed/part_002)                 *)
(*   TaskService                        (src/services/task-service.ts)     *)
(*                                                                         *)
(* Concurrent callers (Procs) run service use cases and direct event-store *)
(* calls.  Every await of the TypeScript code that touches the database is *)
(* a separate step; the synchronous code between two awaits is one step.   *)
(* The database is PostgreSQL at its default isolation level (READ COMMITTED)*)
(* with the UNIQUE(aggregate_id, version) constraint of the schema.        *)
(***************************************************************************)
EXTENDS Integers, Sequences, FiniteSets, TLC

\* ------------------------------------------------------------------ bounds

\* Number of operations (service use cases and direct store calls) started.
MaxOps == 3

\* Number of direct saveEvents calls started.
MaxAppends == 2

\* Expected versions a direct saveEvents call passes.
ExpectedVersions == 0..1

\* Concurrent callers.
Procs == {"p1", "p2"}

\* Aggregate identities (uuid values).
Ids == {"a1", "a2"}

\* ------------------------------------------------------------------ values

\* Strings are sequences of one-character strings, so that trim() is computed.
Undefined == <<"undefined">>

\* An absent priority (priority?: TaskPriority).
NoPriority == "undefined"

LOW == "low"

MEDIUM == "medium"

HIGH == "high"

PENDING == "pending"

COMPLETED == "completed"

CANCELLED == "cancelled"

\* title.length > 255 is rejected.
MaxTitleLength == 255

\* description.length > 1000 is rejected.
MaxDescriptionLength == 1000

RECURSIVE TrimStart(_)
TrimStart(s) ==
  IF s = <<>> THEN <<>>
  ELSE IF Head(s) = " " THEN TrimStart(Tail(s)) ELSE s

RECURSIVE TrimEnd(_)
TrimEnd(s) ==
  IF s = <<>> THEN <<>>
  ELSE IF s[Len(s)] = " " THEN TrimEnd(SubSeq(s, 1, Len(s) - 1)) ELSE s

\* String.prototype.trim
Trim(s) == TrimEnd(TrimStart(s))

\* x?.trim()
OptTrim(s) == IF s = Undefined THEN Undefined ELSE Trim(s)

\* ------------------------------------------------------------------ events

EmptyPayload == [title |-> Undefined, description |-> Undefined, priority |-> NoPriority]

\* A DomainEvent: source is metadata.source.  The uuid and the timestamp are
\* left out: no decision of the code reads them.
DomainEvent(aggregateId, eventType, version, payload, source) ==
  [aggregateId |-> aggregateId, eventType |-> eventType,
   version |-> version, payload |-> payload, source |-> source]

\* ------------------------------------------------------------------ aggregate

\* new TaskAggregate(id): AggregateRoot fields and TaskAggregate fields.
\* applied counts the applyEvent calls made on the instance (history only in
\* the model, not a field of the class).
NewAggregate(id) ==
  [id |-> id, version |-> 0, uncommitted |-> <<>>,
   title |-> <<>>, description |-> Undefined, priority |-> MEDIUM,
   status |-> PENDING, applied |-> 0]

NoAggregate == NewAggregate("none")

KnownEventTypes == {"TaskCreated", "TaskCompleted", "TaskCancelled", "TaskUpdated"}

\* TaskAggregate.applyEvent with its four private appliers.
ApplyEvent(agg, event) ==
  LET a == [agg EXCEPT !.applied = @ + 1] IN
  CASE event.eventType = "TaskCreated" ->
         [a EXCEPT !.title = event.payload.title,
                   !.description = event.payload.description,
                   !.priority = event.payload.priority,
                   !.status = PENDING]
    [] event.eventType = "TaskCompleted" -> [a EXCEPT !.status = COMPLETED]
    [] event.eventType = "TaskCancelled" -> [a EXCEPT !.status = CANCELLED]
    [] event.eventType = "TaskUpdated" ->
         [a EXCEPT
            !.title = IF event.payload.title # Undefined
                      THEN event.payload.title ELSE @,
            !.description = IF event.payload.description # Undefined
                            THEN event.payload.description ELSE @,
            !.priority = IF event.payload.priority # NoPriority
                         THEN event.payload.priority ELSE @]

\* raiseEvent that buffers the event without applying it.
RaiseEventNoApply(agg, event) == [agg EXCEPT !.uncommitted = Append(@, event)]

\* AggregateRoot.raiseEvent: push to the buffer, then applyEvent.  _version is
\* not touched.
RaiseEvent(agg, event) ==
  ApplyEvent([agg EXCEPT !.uncommitted = Append(@, event)], event)

\* AggregateRoot.loadFromHistory: applyEvent and _version++ per event.
RECURSIVE LoadFromHistory(_, _)
LoadFromHistory(agg, events) ==
  IF events = <<>> THEN agg
  ELSE LoadFromHistory([ApplyEvent(agg, Head(events)) EXCEPT !.version = @ + 1],
                       Tail(events))

\* AggregateRoot.markEventsAsCommitted
MarkEventsAsCommitted(agg) == [agg EXCEPT !.uncommitted = <<>>]

Thrown(err, agg) == [ok |-> FALSE, err |-> err, agg |-> agg]

Returned(agg) == [ok |-> TRUE, err |-> "none", agg |-> agg]

\* The error classes of the application; anything else a method throws is a
\* plain Error.
DomainErrors == {"ValidationError", "NotFoundError", "ConflictError"}

\* The default branch of TaskAggregate.applyEvent: throw new Error(...).
ApplyEventThrows(event) == event.eventType \notin KnownEventTypes

\* loadFromHistory over an applyEvent whose default branch does nothing.
RECURSIVE LoadFromHistorySkipsUnknown(_, _)
LoadFromHistorySkipsUnknown(agg, events) ==
  IF events = <<>> THEN Returned(agg)
  ELSE IF Head(events).eventType \notin KnownEventTypes
  THEN LoadFromHistorySkipsUnknown(
         [agg EXCEPT !.applied = @ + 1, !.version = @ + 1], Tail(events))
  ELSE LoadFromHistorySkipsUnknown(
         [ApplyEvent(agg, Head(events)) EXCEPT !.version = @ + 1], Tail(events))

\* AggregateRoot.loadFromHistory on any history: the forEach stops at the
\* first event applyEvent throws on, with the instance as the events before
\* it left it; the throwing call is counted in applied.
RECURSIVE TryLoadFromHistory(_, _)
TryLoadFromHistory(agg, events) ==
  IF events = <<>> THEN Returned(agg)
  ELSE IF ApplyEventThrows(Head(events))
  THEN Thrown("Error", [agg EXCEPT !.applied = @ + 1])
  ELSE TryLoadFromHistory(
         [ApplyEvent(agg, Head(events)) EXCEPT !.version = @ + 1], Tail(events))

\* A catch block that logs and rethrows: the caller gets the error and no
\* instance.
Rethrown(outcome) ==
  IF outcome.ok THEN outcome ELSE Thrown(outcome.err, NoAggregate)

\* The title checks shared by createNew and update.
TitleInvalid(title) ==
  \/ title = <<>>
  \/ Len(Trim(title)) = 0
  \/ Len(title) > MaxTitleLength

\* createNew that checks the length of the trimmed title.
CreateNewChecksTrimmed(uuid, title, description, priority) ==
  IF title = <<>> \/ Len(Trim(title)) = 0 \/ Len(Trim(title)) > MaxTitleLength
  THEN Thrown("ValidationError", NewAggregate(uuid))
  ELSE IF description # Undefined /\ description # <<>>
          /\ Len(description) > MaxDescriptionLength
  THEN Thrown("ValidationError", NewAggregate(uuid))
  ELSE Returned(RaiseEvent(NewAggregate(uuid),
         DomainEvent(uuid, "TaskCreated", 1,
                     [title |-> Trim(title),
                      description |-> OptTrim(description),
                      priority |-> priority],
                     "TaskAggregate.createNew")))

\* TaskAggregate.createNew(title, description, priority).  uuid is the id
\* drawn for the new aggregate.
CreateNew(uuid, title, description, priority) ==
  IF TitleInvalid(title)
  THEN Thrown("ValidationError", NewAggregate(uuid))
  ELSE IF description # Undefined /\ description # <<>>
          /\ Len(description) > MaxDescriptionLength
  THEN Thrown("ValidationError", NewAggregate(uuid))
  ELSE Returned(RaiseEvent(NewAggregate(uuid),
         DomainEvent(uuid, "TaskCreated", 1,
                     [title |-> Trim(title),
                      description |-> OptTrim(description),
                      priority |-> priority],
                     "TaskAggregate.createNew")))

\* TaskAggregate.complete
Complete(agg) ==
  IF agg.status # PENDING
  THEN Thrown("ValidationError", agg)
  ELSE Returned(RaiseEvent(agg,
         DomainEvent(agg.id, "TaskCompleted", agg.version + 1,
                     EmptyPayload, "TaskAggregate.complete")))

\* cancel without the "already cancelled" check.
CancelRepeatable(agg) ==
  IF agg.status = COMPLETED THEN Thrown("ValidationError", agg)
  ELSE Returned(RaiseEvent(agg,
         DomainEvent(agg.id, "TaskCancelled", agg.version + 1,
                     EmptyPayload, "TaskAggregate.cancel")))

\* TaskAggregate.cancel
Cancel(agg) ==
  IF agg.status = COMPLETED THEN Thrown("ValidationError", agg)
  ELSE IF agg.status = CANCELLED THEN Thrown("ValidationError", agg)
  ELSE Returned(RaiseEvent(agg,
         DomainEvent(agg.id, "TaskCancelled", agg.version + 1,
                     EmptyPayload, "TaskAggregate.cancel")))

\* update without the status guard.
UpdateAnyStatus(agg, updates) ==
  IF updates.title # Undefined /\ TitleInvalid(updates.title)
  THEN Thrown("ValidationError", agg)
  ELSE IF updates.description # Undefined
          /\ Len(updates.description) > MaxDescriptionLength
  THEN Thrown("ValidationError", agg)
  ELSE IF /\ updates.title = Undefined \/ Trim(updates.title) = agg.title
          /\ updates.description = Undefined
             \/ Trim(updates.description) = agg.description
          /\ updates.priority = NoPriority \/ updates.priority = agg.priority
  THEN Returned(agg)
  ELSE Returned(RaiseEvent(agg,
         DomainEvent(agg.id, "TaskUpdated", agg.version + 1,
                     [title |-> OptTrim(updates.title),
                      description |-> OptTrim(updates.description),
                      priority |-> updates.priority],
                     "TaskAggregate.update")))

\* update without the hasChanges test.
UpdateAlwaysEmits(agg, updates) ==
  IF agg.status # PENDING THEN Thrown("ValidationError", agg)
  ELSE IF updates.title # Undefined /\ TitleInvalid(updates.title)
  THEN Thrown("ValidationError", agg)
  ELSE IF updates.description # Undefined
          /\ Len(updates.description) > MaxDescriptionLength
  THEN Thrown("ValidationError", agg)
  ELSE Returned(RaiseEvent(agg,
         DomainEvent(agg.id, "TaskUpdated", agg.version + 1,
                     [title |-> OptTrim(updates.title),
                      description |-> OptTrim(updates.description),
                      priority |-> updates.priority],
                     "TaskAggregate.update")))

\* TaskAggregate.update(updates): updates is a record of title, description,
\* priority, each possibly absent.
Update(agg, updates) ==
  IF agg.status # PENDING THEN Thrown("ValidationError", agg)
  ELSE IF updates.title # Undefined /\ TitleInvalid(updates.title)
  THEN Thrown("ValidationError", agg)
  ELSE IF updates.description # Undefined
          /\ Len(updates.description) > MaxDescriptionLength
  THEN Thrown("ValidationError", agg)
  ELSE LET hasChanges ==
             \/ updates.title # Undefined /\ Trim(updates.title) # agg.title
             \/ updates.description # Undefined
                /\ Trim(updates.description) # agg.description
             \/ updates.priority # NoPriority /\ updates.priority # agg.priority
       IN IF ~hasChanges THEN Returned(agg)
          ELSE Returned(RaiseEvent(agg,
                 DomainEvent(agg.id, "TaskUpdated", agg.version + 1,
                             [title |-> OptTrim(updates.title),
                              description |-> OptTrim(updates.description),
                              priority |-> updates.priority],
                             "TaskAggregate.update")))

\* ------------------------------------------------------------------ state

VARIABLES
  event_store,  \* committed rows of table event_store, in commit order
  ops,          \* operations started so far
  appends,      \* direct saveEvents calls started so far
  pc,           \* per caller: "idle", or the await its saveEvents call is at
  op,           \* per caller: the operation it runs or ran last
  target,       \* per caller: the aggregate id of that operation
  agg,          \* per caller: the TaskAggregate instance of that operation
  loaded,       \* per caller: events folded when the instance was obtained
  batch,        \* per caller: the events argument of saveEvents
  expected,     \* per caller: the expectedVersion argument of saveEvents
  idx,          \* per caller: loop index i of saveEvents
  pending,      \* per caller: rows inserted by its open transaction
  result,       \* per caller: outcome of the operation
  saved,        \* per caller: repository.save returned normally
  obs,          \* per caller: rows returned by its last getEvents
  interfered,   \* per caller: another caller committed to its target since it loaded
  overlap,      \* per caller: its call ran while another save on its target ran
  scen,         \* per caller: how far it is in create -> cancel -> complete
  published,    \* per caller: the events its use case handed to eventBus.publish
  handlers,     \* InMemoryEventBus.handlers, in subscription order
  delivered,    \* the handle calls made by the bus, in call order
  running,      \* per caller: the handle calls of its publish not yet settled
  start,        \* per caller: length of delivered when its publish was called
  event_store_id_seq, \* last value drawn from the sequence of column id
  position,     \* column id of the rows inserted, by <<aggregate_id, version>>
  limit,        \* per caller: how many events its last getAllEvents wanted
  checkedOut    \* clients taken from the pool by pool.connect and not released

vars == <<event_store, ops, appends, pc, op, target, agg, loaded, batch, expected,
          idx, pending, result, saved, obs, interfered, overlap, scen,
          published, handlers, delivered, running, start, event_store_id_seq,
          position, limit, checkedOut>>

\* The state of the event bus.
busVars == <<handlers, delivered, running, start>>

\* Column id (SERIAL) of event_store and the use made of it by getAllEvents.
\* Only the specification of the global log maintains it.
logVars == <<event_store_id_seq, position, limit>>

\* The connection pool.
poolVars == <<checkedOut>>

InSave == {"check", "insert", "commit"}

\* max of dbConfig: the size of the pool.
PoolMax == 20

\* const client = await this.pool.connect(): a client leaves the pool; the
\* call waits while all clients are out.
PoolConnect ==
  /\ checkedOut < PoolMax
  /\ checkedOut' = checkedOut + 1

\* client.release() as the last statement of the try block.
ReleaseInTry(n, thrown) == IF thrown THEN n ELSE n - 1

\* finally { client.release() }: runs when the try block has returned and when
\* the try block or the catch block has thrown.
ReleaseInFinally(n, thrown) == n - 1

\* Operations that reach saveEvents through EventSourcedTaskRepository.save.
ViaRepository == {"createTask", "completeTask", "cancelTask", "updateTask", "save"}

ServiceOps == {"createTask", "completeTask", "cancelTask", "updateTask"}

Init ==
  /\ event_store = <<>>
  /\ ops = 0
  /\ appends = 0
  /\ pc = [p \in Procs |-> "idle"]
  /\ op = [p \in Procs |-> "none"]
  /\ target = [p \in Procs |-> "none"]
  /\ agg = [p \in Procs |-> NoAggregate]
  /\ loaded = [p \in Procs |-> 0]
  /\ batch = [p \in Procs |-> <<>>]
  /\ expected = [p \in Procs |-> 0]
  /\ idx = [p \in Procs |-> 0]
  /\ pending = [p \in Procs |-> <<>>]
  /\ result = [p \in Procs |-> "none"]
  /\ saved = [p \in Procs |-> FALSE]
  /\ obs = [p \in Procs |-> <<>>]
  /\ interfered = [p \in Procs |-> FALSE]
  /\ overlap = [p \in Procs |-> FALSE]
  /\ scen = [p \in Procs |-> 0]
  /\ published = [p \in Procs |-> <<>>]
  /\ handlers = <<>>
  /\ delivered = <<>>
  /\ running = [p \in Procs |-> {}]
  /\ start = [p \in Procs |-> 0]
  /\ event_store_id_seq = 0
  /\ position = <<>>
  /\ limit = [p \in Procs |-> 0]
  /\ checkedOut = 0

\* ------------------------------------------------------------------ event store

RECURSIVE SelectSeq2(_, _, _)
\* The subsequence of rows of one aggregate with version > fromVersion.
SelectSeq2(rows, id, fromVersion) ==
  IF rows = <<>> THEN <<>>
  ELSE IF Head(rows).aggregate_id = id /\ Head(rows).version > fromVersion
       THEN <<Head(rows)>> \o SelectSeq2(Tail(rows), id, fromVersion)
       ELSE SelectSeq2(Tail(rows), id, fromVersion)

RECURSIVE SortByVersion(_)
\* ORDER BY version ASC (insertion sort on the selected rows).
SortByVersion(rows) ==
  IF rows = <<>> THEN <<>>
  ELSE LET m == CHOOSE i \in 1..Len(rows) :
                  \A j \in 1..Len(rows) :
                    \/ rows[i].version < rows[j].version
                    \/ rows[i].version = rows[j].version /\ i <= j
           rest == [j \in 1..(Len(rows) - 1) |->
                      IF j < m THEN rows[j] ELSE rows[j + 1]]
       IN <<rows[m]>> \o SortByVersion(rest)

\* What a statement of caller p sees under READ COMMITTED: the committed rows
\* and the rows of its own open transaction.
Visible(p) == event_store \o pending[p]

\* The query written with version >= $2.
SelectEventsFromInclusive(rows, id, fromVersion) ==
  SortByVersion(SelectSeq2(rows, id, fromVersion - 1))

\* SELECT ... WHERE aggregate_id = $1 AND version > $2 ORDER BY version ASC
SelectEvents(rows, id, fromVersion) == SortByVersion(SelectSeq2(rows, id, fromVersion))

\* MAX(version) taken over the whole table (no WHERE aggregate_id = $1).
GetCurrentVersionAnyId(rows, id) ==
  LET vs == {rows[i].version : i \in 1..Len(rows)}
  IN IF vs = {} THEN 0 ELSE CHOOSE v \in vs : \A w \in vs : w <= v

\* getCurrentVersion: SELECT COALESCE(MAX(version), 0) WHERE aggregate_id = $1
GetCurrentVersion(rows, id) ==
  LET vs == {rows[i].version : i \in {j \in 1..Len(rows) : rows[j].aggregate_id = id}}
  IN IF vs = {} THEN 0 ELSE CHOOSE v \in vs : \A w \in vs : w <= v

\* EXISTS over the whole table (no WHERE aggregate_id = $1).
AggregateExistsAnyAggregate(rows, id) == rows # <<>>

\* aggregateExists: SELECT EXISTS(SELECT 1 FROM event_store WHERE aggregate_id = $1)
AggregateExists(rows, id) ==
  \E i \in 1..Len(rows) : rows[i].aggregate_id = id

\* The row-to-DomainEvent mapping of getEvents.
RowToEvent(row) ==
  DomainEvent(row.aggregate_id, row.event_type, row.version, row.payload,
              row.source)

\* The row insertEvent writes for an event at a version: the aggregate id is
\* taken from the event.  first, batchLen and basis are history: the version
\* of the first row of the batch the row belongs to, the size of that batch
\* and the number of events its writer had folded.
EventRow(event, version, first, batchLen, basis) ==
  [aggregate_id |-> event.aggregateId, event_type |-> event.eventType,
   version |-> version, payload |-> event.payload, source |-> event.source,
   first |-> first, batchLen |-> batchLen, basis |-> basis]

\* UNIQUE(version) in place of UNIQUE(aggregate_id, version).
HasKeyOfAnyAggregate(rows, id, version) ==
  \E i \in 1..Len(rows) : rows[i].version = version

\* No UNIQUE(aggregate_id, version) constraint on the table.
HasKeyNever(rows, id, version) == FALSE

\* UNIQUE(aggregate_id, version): some row of rows has this key.
HasKey(rows, id, version) ==
  \E i \in 1..Len(rows) : rows[i].aggregate_id = id /\ rows[i].version = version

\* The check written as "conflict only when the stored version is ahead".
VersionMatchesLoose(currentVersion, expectedVersion) == currentVersion <= expectedVersion

\* if (currentVersion !== expectedVersion) throw new ConflictError
VersionMatches(currentVersion, expectedVersion) == currentVersion = expectedVersion

\* Version numbering that starts at expectedVersion instead of after it.
NewVersionOffByOne(expectedVersion, i) == expectedVersion + i

\* const newVersion = expectedVersion + i + 1
NewVersion(expectedVersion, i) == expectedVersion + i + 1

\* An INSERT outside any transaction (no BEGIN): durable at once.
InsertEventAutocommit(store, pend, row) == [store |-> Append(store, row), pend |-> pend]

\* Effect of one INSERT inside the transaction opened by BEGIN: the row is
\* private to the transaction until COMMIT.
InsertEvent(store, pend, row) == [store |-> store, pend |-> Append(pend, row)]

\* The catch block ending the transaction with COMMIT.
RollbackKeepsRows(store, pend) == store \o pend

\* A catch block that compensates by deleting the rows of the aggregates the
\* failed transaction touched.
RollbackDeletesAggregate(store, pend) ==
  LET Kept(row) == \A i \in 1..Len(pend) : pend[i].aggregate_id # row.aggregate_id
  IN SelectSeq(store, Kept)

\* Effect of ROLLBACK on the committed table: none.
Rollback(store, pend) == store

\* Effect of COMMIT on the committed table: all rows of the transaction.
CommitRows(store, pend) == store \o pend

\* ------------------------------------------------------------------ repository

\* getById without the events.length === 0 check.
GetByIdNoNotFound(rows, id) ==
  LET events == SelectEvents(rows, id, 0) IN
  Returned(LoadFromHistory(NewAggregate(id),
                           [i \in 1..Len(events) |-> RowToEvent(events[i])]))

\* EventSourcedTaskRepository.getById: getEvents, NotFoundError when there
\* are none, otherwise a new TaskAggregate(id) loaded from history.
GetById(rows, id) ==
  LET events == SelectEvents(rows, id, 0) IN
  IF events = <<>> THEN Thrown("NotFoundError", NoAggregate)
  ELSE Rethrown(TryLoadFromHistory(NewAggregate(id),
                  [i \in 1..Len(events) |-> RowToEvent(events[i])]))

\* The expected version EventSourcedTaskRepository.save passes to saveEvents.
SaveExpectedVersion(task) == task.version - Len(task.uncommitted)

\* save with markEventsAsCommitted in a finally block.
SaveOutcomeClearsAlways(task, appended) == MarkEventsAsCommitted(task)

\* The aggregate after EventSourcedTaskRepository.save of a non-empty buffer:
\* markEventsAsCommitted runs after saveEvents has returned; when saveEvents
\* throws, the catch block logs and rethrows.
SaveOutcome(task, appended) ==
  IF appended THEN MarkEventsAsCommitted(task) ELSE task

\* A use case that publishes whatever save did.
PublishArgRegardless(uncommittedEvents, saveReturned) == uncommittedEvents

\* What a TaskService use case hands to eventBus.publish: the events it read
\* from the buffer before save, when save has returned; nothing when save
\* threw (the statement after the await is not reached).
PublishArg(uncommittedEvents, saveReturned) ==
  IF saveReturned THEN uncommittedEvents ELSE <<>>

\* ------------------------------------------------------------------ inputs

\* data of createTask
CreateInputs ==
  {[title |-> <<"A">>, description |-> Undefined, priority |-> NoPriority],
   [title |-> <<" ", "A", " ">>, description |-> <<"d", " ">>, priority |-> HIGH],
   [title |-> <<" ">>, description |-> Undefined, priority |-> NoPriority]}

\* updates of updateTask
UpdateInputs ==
  {[title |-> <<"B">>, description |-> Undefined, priority |-> NoPriority],
   [title |-> <<" ", "A">>, description |-> Undefined, priority |-> NoPriority],
   [title |-> Undefined, description |-> Undefined, priority |-> NoPriority]}

\* A string of n characters.
LongText(n) == [i \in 1..n |-> "x"]

\* Arguments of a direct createNew call: those of createTask, and titles and
\* descriptions at and beyond the length limits.
AggCreateInputs ==
  CreateInputs \cup
  {[title |-> <<>>, description |-> Undefined, priority |-> NoPriority],
   [title |-> LongText(MaxTitleLength), description |-> Undefined,
    priority |-> NoPriority],
   [title |-> LongText(MaxTitleLength + 1), description |-> Undefined,
    priority |-> NoPriority],
   [title |-> LongText(MaxTitleLength) \o <<" ">>, description |-> Undefined,
    priority |-> NoPriority],
   [title |-> <<"A">>, description |-> LongText(MaxDescriptionLength),
    priority |-> LOW],
   [title |-> <<"A">>, description |-> LongText(MaxDescriptionLength + 1),
    priority |-> NoPriority],
   [title |-> <<"A">>, description |-> <<>>, priority |-> NoPriority]}

\* Arguments of a direct update call: those of updateTask, a title supplied
\* unchanged next to a priority, a description, and values the validation
\* refuses.
AggUpdateInputs ==
  UpdateInputs \cup
  {[title |-> <<"A">>, description |-> Undefined, priority |-> HIGH],
   [title |-> Undefined, description |-> <<"d", " ">>, priority |-> NoPriority],
   [title |-> <<>>, description |-> Undefined, priority |-> LOW],
   [title |-> LongText(MaxTitleLength) \o <<" ">>, description |-> Undefined,
    priority |-> NoPriority],
   [title |-> <<"B">>, description |-> LongText(MaxDescriptionLength + 1),
    priority |-> NoPriority]}

\* Event shapes a direct caller of saveEvents passes: type and payload.
Created ==
  [eventType |-> "TaskCreated",
   payload |-> [title |-> <<"A">>, description |-> Undefined, priority |-> MEDIUM]]

Completed == [eventType |-> "TaskCompleted", payload |-> EmptyPayload]

Cancelled == [eventType |-> "TaskCancelled", payload |-> EmptyPayload]

\* The batches a direct caller of saveEvents passes, as event shapes.
TemplateSeqs ==
  {<<>>, <<Created>>, <<Completed>>, <<Cancelled>>, <<Created, Completed>>,
   <<Created, Cancelled>>, <<Completed, Cancelled>>}

\* The batch of a direct saveEvents call: every event carries the aggregate id
\* the call names.
ClientBatch(id, tpls, expectedVersion) ==
  [i \in 1..Len(tpls) |->
     DomainEvent(id, tpls[i].eventType, expectedVersion + i,
                 tpls[i].payload, "client")]

\* Ids nothing refers to yet.
FreshIds ==
  {id \in Ids :
     /\ ~\E i \in 1..Len(event_store) : event_store[i].aggregate_id = id
     /\ \A q \in Procs :
          /\ target[q] # id
          /\ ~\E i \in 1..Len(pending[q]) : pending[q][i].aggregate_id = id}

\* uuidv4() for a new aggregate: unused ids are interchangeable.
Uuid == CHOOSE id \in FreshIds : TRUE

\* ------------------------------------------------------------------ service

\* A use case whose catch block logs the error and returns.
ProceedSwallowsError(p, o, id, nLoaded, r) ==
  /\ ops' = ops + 1
  /\ op' = [op EXCEPT ![p] = o]
  /\ target' = [target EXCEPT ![p] = id]
  /\ agg' = [agg EXCEPT ![p] = r.agg]
  /\ loaded' = [loaded EXCEPT ![p] = nLoaded]
  /\ obs' = [obs EXCEPT ![p] = <<>>]
  /\ interfered' = [interfered EXCEPT ![p] = FALSE]
  /\ pending' = [pending EXCEPT ![p] = <<>>]
  /\ idx' = [idx EXCEPT ![p] = 0]
  /\ published' = [published EXCEPT ![p] = <<>>]
  /\ UNCHANGED <<event_store, appends, busVars, logVars, poolVars>>
  /\ scen' = [scen EXCEPT ![p] =
       IF o = "createTask" THEN 1
       ELSE IF o = "cancelTask" /\ scen[p] = 1 /\ saved[p] /\ target[p] = id THEN 2
       ELSE IF o = "completeTask" /\ scen[p] = 2 /\ result[p] = "ok" /\ target[p] = id
       THEN 3
       ELSE 0]
  /\ IF ~r.ok
     THEN /\ pc' = [pc EXCEPT ![p] = "idle"]
          /\ result' = [result EXCEPT ![p] = "ok"]
          /\ saved' = [saved EXCEPT ![p] = FALSE]
          /\ batch' = [batch EXCEPT ![p] = <<>>]
          /\ expected' = [expected EXCEPT ![p] = 0]
          /\ overlap' = [overlap EXCEPT ![p] = FALSE]
     ELSE IF r.agg.uncommitted = <<>>
     THEN /\ pc' = [pc EXCEPT ![p] = "idle"]
          /\ result' = [result EXCEPT ![p] = "ok"]
          /\ saved' = [saved EXCEPT ![p] = (o # "updateTask")]
          /\ batch' = [batch EXCEPT ![p] = <<>>]
          /\ expected' = [expected EXCEPT ![p] = 0]
          /\ overlap' = [overlap EXCEPT ![p] = FALSE]
     ELSE /\ pc' = [pc EXCEPT ![p] = "check"]
          /\ result' = [result EXCEPT ![p] = "none"]
          /\ saved' = [saved EXCEPT ![p] = FALSE]
          /\ batch' = [batch EXCEPT ![p] = r.agg.uncommitted]
          /\ expected' = [expected EXCEPT ![p] = SaveExpectedVersion(r.agg)]
          /\ overlap' = [q \in Procs |->
               IF q = p
               THEN \E x \in Procs \ {p} : pc[x] \in InSave /\ target[x] = id
               ELSE overlap[q] \/ (pc[q] \in InSave /\ target[q] = id)]

\* The part of a use case from the aggregate call to the first await of
\* repository.save -> saveEvents (pool.connect), given the outcome r of
\* obtaining and mutating the aggregate.  A thrown error ends the use case;
\* an empty buffer makes save (and publish) return at once.
Proceed(p, o, id, nLoaded, r) ==
  /\ ops' = ops + 1
  /\ op' = [op EXCEPT ![p] = o]
  /\ target' = [target EXCEPT ![p] = id]
  /\ agg' = [agg EXCEPT ![p] = r.agg]
  /\ loaded' = [loaded EXCEPT ![p] = nLoaded]
  /\ obs' = [obs EXCEPT ![p] = <<>>]
  /\ interfered' = [interfered EXCEPT ![p] = FALSE]
  /\ pending' = [pending EXCEPT ![p] = <<>>]
  /\ idx' = [idx EXCEPT ![p] = 0]
  /\ published' = [published EXCEPT ![p] = <<>>]
  /\ UNCHANGED <<event_store, appends, busVars, logVars>>
  /\ scen' = [scen EXCEPT ![p] =
       IF o = "createTask" THEN 1
       ELSE IF o = "cancelTask" /\ scen[p] = 1 /\ saved[p] /\ target[p] = id THEN 2
       ELSE IF o = "completeTask" /\ scen[p] = 2 /\ result[p] = "ok" /\ target[p] = id
       THEN 3
       ELSE 0]
  /\ IF ~r.ok
     THEN /\ pc' = [pc EXCEPT ![p] = "idle"]
          /\ result' = [result EXCEPT ![p] = r.err]
          /\ saved' = [saved EXCEPT ![p] = FALSE]
          /\ batch' = [batch EXCEPT ![p] = <<>>]
          /\ expected' = [expected EXCEPT ![p] = 0]
          /\ overlap' = [overlap EXCEPT ![p] = FALSE]
          /\ UNCHANGED poolVars
     ELSE IF r.agg.uncommitted = <<>>
     THEN /\ pc' = [pc EXCEPT ![p] = "idle"]
          /\ result' = [result EXCEPT ![p] = "ok"]
          /\ saved' = [saved EXCEPT ![p] = (o # "updateTask")]
          /\ batch' = [batch EXCEPT ![p] = <<>>]
          /\ expected' = [expected EXCEPT ![p] = 0]
          /\ overlap' = [overlap EXCEPT ![p] = FALSE]
          /\ UNCHANGED poolVars
     ELSE /\ PoolConnect
          /\ pc' = [pc EXCEPT ![p] = "check"]
          /\ result' = [result EXCEPT ![p] = "none"]
          /\ saved' = [saved EXCEPT ![p] = FALSE]
          /\ batch' = [batch EXCEPT ![p] = r.agg.uncommitted]
          /\ expected' = [expected EXCEPT ![p] = SaveExpectedVersion(r.agg)]
          /\ overlap' = [q \in Procs |->
               IF q = p
               THEN \E x \in Procs \ {p} : pc[x] \in InSave /\ target[x] = id
               ELSE overlap[q] \/ (pc[q] \in InSave /\ target[q] = id)]

CanStart(p) == pc[p] = "idle" /\ ops < MaxOps

\* TaskService.createTask
CreateTask(p) ==
  /\ CanStart(p)
  /\ FreshIds # {}
  /\ \E data \in CreateInputs :
       Proceed(p, "createTask", Uuid, 0,
               CreateNew(Uuid, data.title, data.description,
                         IF data.priority = NoPriority THEN MEDIUM ELSE data.priority))

\* completeTask(taskId): getById, task.complete, save.
CompleteTaskOn(p, id) ==
  LET g == GetById(event_store, id) IN
  Proceed(p, "completeTask", id, g.agg.version,
          IF g.ok THEN Complete(g.agg) ELSE g)

\* TaskService.completeTask
CompleteTask(p) ==
  /\ CanStart(p)
  /\ \E id \in Ids : CompleteTaskOn(p, id)

\* cancelTask(taskId): getById, task.cancel, save.
CancelTaskOn(p, id) ==
  LET g == GetById(event_store, id) IN
  Proceed(p, "cancelTask", id, g.agg.version,
          IF g.ok THEN Cancel(g.agg) ELSE g)

\* TaskService.cancelTask
CancelTask(p) ==
  /\ CanStart(p)
  /\ \E id \in Ids : CancelTaskOn(p, id)

\* updateTask(taskId, updates): getById, task.update, save when the buffer
\* is not empty.
UpdateTaskWith(p, id, updates) ==
  LET g == GetById(event_store, id) IN
  Proceed(p, "updateTask", id, g.agg.version,
          IF g.ok THEN Update(g.agg, updates) ELSE g)

\* TaskService.updateTask
UpdateTask(p) ==
  /\ CanStart(p)
  /\ \E id \in Ids, updates \in UpdateInputs : UpdateTaskWith(p, id, updates)

\* ------------------------------------------------------------------ direct store calls

\* saveEvents(aggregateId, events, expectedVersion), up to pool.connect; an
\* empty batch returns at once.
SaveEventsWith(p, id, events, expectedVersion) ==
  /\ ops' = ops + 1
  /\ op' = [op EXCEPT ![p] = "saveEvents"]
  /\ target' = [target EXCEPT ![p] = id]
  /\ agg' = [agg EXCEPT ![p] = NoAggregate]
  /\ loaded' = [loaded EXCEPT ![p] = expectedVersion]
  /\ batch' = [batch EXCEPT ![p] = events]
  /\ expected' = [expected EXCEPT ![p] = expectedVersion]
  /\ idx' = [idx EXCEPT ![p] = 0]
  /\ pending' = [pending EXCEPT ![p] = <<>>]
  /\ saved' = [saved EXCEPT ![p] = FALSE]
  /\ obs' = [obs EXCEPT ![p] = <<>>]
  /\ interfered' = [interfered EXCEPT ![p] = FALSE]
  /\ scen' = [scen EXCEPT ![p] = 0]
  /\ IF events = <<>>
     THEN /\ pc' = [pc EXCEPT ![p] = "idle"]
          /\ result' = [result EXCEPT ![p] = "ok"]
          /\ overlap' = [overlap EXCEPT ![p] = FALSE]
          /\ UNCHANGED poolVars
     ELSE /\ PoolConnect
          /\ pc' = [pc EXCEPT ![p] = "check"]
          /\ result' = [result EXCEPT ![p] = "none"]
          /\ overlap' = [q \in Procs |->
               IF q = p
               THEN \E x \in Procs \ {p} : pc[x] \in InSave /\ target[x] = id
               ELSE overlap[q] \/ (pc[q] \in InSave /\ target[q] = id)]
  /\ published' = [published EXCEPT ![p] = <<>>]
  /\ UNCHANGED <<event_store, busVars, logVars>>

\* PostgreSQLEventStore.saveEvents called directly with events of the
\* aggregate the call names.
SaveEvents(p) ==
  /\ CanStart(p)
  /\ appends < MaxAppends
  /\ appends' = appends + 1
  /\ \E id \in Ids, tpls \in TemplateSeqs, expectedVersion \in ExpectedVersions :
       SaveEventsWith(p, id, ClientBatch(id, tpls, expectedVersion), expectedVersion)

\* getEvents(aggregateId, fromVersion): one SELECT on a pooled connection.
GetEventsFrom(p, id, fromVersion) ==
  /\ ops' = ops + 1
  /\ op' = [op EXCEPT ![p] = "getEvents"]
  /\ target' = [target EXCEPT ![p] = id]
  /\ agg' = [agg EXCEPT ![p] = NoAggregate]
  /\ loaded' = [loaded EXCEPT ![p] = fromVersion]
  /\ obs' = [obs EXCEPT ![p] = SelectEvents(Visible(p), id, fromVersion)]
  /\ result' = [result EXCEPT ![p] = "ok"]
  /\ overlap' = [overlap EXCEPT ![p] =
       \E q \in Procs \ {p} : \E i \in 1..Len(pending[q]) :
         pending[q][i].aggregate_id = id]
  /\ batch' = [batch EXCEPT ![p] = <<>>]
  /\ expected' = [expected EXCEPT ![p] = 0]
  /\ idx' = [idx EXCEPT ![p] = 0]
  /\ saved' = [saved EXCEPT ![p] = FALSE]
  /\ interfered' = [interfered EXCEPT ![p] = FALSE]
  /\ scen' = [scen EXCEPT ![p] = 0]
  /\ published' = [published EXCEPT ![p] = <<>>]
  /\ UNCHANGED <<event_store, appends, pc, pending, busVars, logVars, poolVars>>

\* PostgreSQLEventStore.getEvents
GetEvents(p) ==
  /\ CanStart(p)
  /\ \E id \in Ids, fromVersion \in 0..1 : GetEventsFrom(p, id, fromVersion)

\* ------------------------------------------------------------------ saveEvents, await by await

\* A save that answers a conflict by rolling back, reading the current
\* version again and running the version check once more.
FailSaveRetries(p, err) ==
  /\ event_store' = Rollback(event_store, pending[p])
  /\ pending' = [pending EXCEPT ![p] = <<>>]
  /\ IF err = "ConflictError" /\ op[p] \in ServiceOps
     THEN /\ expected' = [expected EXCEPT ![p] =
                            GetCurrentVersion(event_store, target[p])]
          /\ UNCHANGED <<pc, result, batch, agg, published, poolVars>>
     ELSE /\ pc' = [pc EXCEPT ![p] = "idle"]
          /\ result' = [result EXCEPT ![p] = err]
          /\ batch' = [batch EXCEPT ![p] = <<>>]
          /\ expected' = [expected EXCEPT ![p] = 0]
          /\ agg' = [agg EXCEPT ![p] =
                       IF op[p] \in ViaRepository THEN SaveOutcome(@, FALSE) ELSE @]
          /\ published' = [published EXCEPT ![p] =
                             IF op[p] \in ServiceOps
                             THEN PublishArg(batch[p], FALSE) ELSE <<>>]
          /\ checkedOut' = checkedOut - 1
  /\ UNCHANGED <<ops, appends, op, target, loaded, idx, saved, obs, interfered,
                 overlap, scen, busVars>>

\* saveEvents ends by throwing err: catch runs ROLLBACK, finally releases the
\* client, and the error reaches the caller of the use case unchanged.  When
\* ROLLBACK itself is rejected the catch block throws that error instead and
\* finally runs all the same: the step StorageFailure takes.
FailSave(p, err) ==
  /\ event_store' = Rollback(event_store, pending[p])
  /\ pending' = [pending EXCEPT ![p] = <<>>]
  /\ pc' = [pc EXCEPT ![p] = "idle"]
  /\ result' = [result EXCEPT ![p] = err]
  /\ batch' = [batch EXCEPT ![p] = <<>>]
  /\ expected' = [expected EXCEPT ![p] = 0]
  /\ agg' = [agg EXCEPT ![p] =
               IF op[p] \in ViaRepository THEN SaveOutcome(@, FALSE) ELSE @]
  /\ published' = [published EXCEPT ![p] =
                     IF op[p] \in ServiceOps THEN PublishArg(batch[p], FALSE) ELSE <<>>]
  /\ checkedOut' = ReleaseInFinally(checkedOut, TRUE)
  /\ UNCHANGED <<ops, appends, op, target, loaded, idx, saved, obs, interfered,
                 overlap, scen, busVars>>

\* BEGIN and the version check of saveEvents.
CheckVersion(p) ==
  /\ pc[p] = "check"
  /\ IF VersionMatches(GetCurrentVersion(Visible(p), target[p]), expected[p])
     THEN /\ pc' = [pc EXCEPT ![p] = "insert"]
          /\ UNCHANGED <<event_store, ops, appends, op, target, agg, loaded, batch,
                         expected, idx, pending, result, saved, obs, interfered,
                         overlap, scen, published, busVars, poolVars>>
     ELSE FailSave(p, "ConflictError")
  /\ UNCHANGED logVars

\* One iteration of the insert loop.  The INSERT waits while another open
\* transaction holds an uncommitted row with the same (aggregate_id, version);
\* it fails with a unique violation when a committed row has that key.
InsertRow(p) ==
  /\ LET event == batch[p][idx[p] + 1]
         newVersion == NewVersion(expected[p], idx[p])
         row == EventRow(event, newVersion, NewVersion(expected[p], 0),
                         Len(batch[p]), loaded[p])
         w == InsertEvent(event_store, pending[p], row)
     IN /\ \A q \in Procs \ {p} : ~HasKey(pending[q], event.aggregateId, newVersion)
        /\ IF HasKey(Visible(p), event.aggregateId, newVersion)
           THEN FailSave(p, "UniqueViolation")
           ELSE /\ event_store' = w.store
                /\ pending' = [pending EXCEPT ![p] = w.pend]
                /\ idx' = [idx EXCEPT ![p] = @ + 1]
                /\ pc' = [pc EXCEPT ![p] =
                            IF idx[p] + 1 = Len(batch[p]) THEN "commit" ELSE "insert"]
                /\ UNCHANGED <<ops, appends, op, target, agg, loaded, batch, expected,
                               result, saved, obs, interfered, overlap, scen,
                               published, busVars, poolVars>>

\* The insert loop with column id left out.
InsertStep(p) ==
  /\ pc[p] = "insert"
  /\ InsertRow(p)
  /\ UNCHANGED logVars

\* COMMIT, and what the caller does when saveEvents has returned: a direct
\* caller is done; repository.save marks the events committed and the use
\* case goes on to eventBus.publish.
Commit(p) ==
  /\ pc[p] = "commit"
  /\ event_store' = CommitRows(event_store, pending[p])
  /\ pending' = [pending EXCEPT ![p] = <<>>]
  /\ interfered' = [q \in Procs |->
       IF q # p /\ pc[q] \in InSave
          /\ \E i \in 1..Len(pending[p]) : pending[p][i].aggregate_id = target[q]
       THEN TRUE ELSE interfered[q]]
  /\ IF op[p] \in ServiceOps
     THEN /\ agg' = [agg EXCEPT ![p] = SaveOutcome(@, TRUE)]
          /\ saved' = [saved EXCEPT ![p] = TRUE]
          /\ published' = [published EXCEPT ![p] = PublishArg(batch[p], TRUE)]
          /\ pc' = [pc EXCEPT ![p] = "publish"]
          /\ UNCHANGED result
     ELSE /\ pc' = [pc EXCEPT ![p] = "idle"]
          /\ result' = [result EXCEPT ![p] = "ok"]
          /\ agg' = [agg EXCEPT ![p] =
                       IF op[p] \in ViaRepository THEN SaveOutcome(@, TRUE) ELSE @]
          /\ saved' = [saved EXCEPT ![p] = IF op[p] \in ViaRepository THEN TRUE ELSE @]
          /\ UNCHANGED published
  /\ batch' = [batch EXCEPT ![p] = <<>>]
  /\ expected' = [expected EXCEPT ![p] = 0]
  /\ idx' = [idx EXCEPT ![p] = 0]
  /\ checkedOut' = ReleaseInFinally(checkedOut, FALSE)
  /\ UNCHANGED <<ops, appends, op, target, loaded, obs, overlap, scen, busVars, logVars>>

\* A query of the open transaction is rejected by the database, or the
\* connection is lost or the call abandoned: nothing of the transaction is kept.
StorageFailure(p) ==
  /\ pc[p] \in InSave
  /\ FailSave(p, "StorageError")
  /\ UNCHANGED logVars

Next ==
  \E p \in Procs :
    \/ CreateTask(p)
    \/ CompleteTask(p)
    \/ CancelTask(p)
    \/ UpdateTask(p)
    \/ SaveEvents(p)
    \/ GetEvents(p)
    \/ CheckVersion(p)
    \/ InsertStep(p)
    \/ Commit(p)
    \/ StorageFailure(p)

Spec == Init /\ [][Next]_vars

\* ------------------------------------------------------------------ aggregate alone

\* A caller holding a TaskAggregate instance calls its public methods; nothing
\* is saved.  agg[p] is the instance caller p holds, op[p] the method it
\* called last and result[p] how that call ended.
AggStep(p, o, a, res) ==
  /\ ops' = ops + 1
  /\ op' = [op EXCEPT ![p] = o]
  /\ agg' = [agg EXCEPT ![p] = a]
  /\ result' = [result EXCEPT ![p] = res]
  /\ UNCHANGED <<event_store, appends, pc, target, loaded, batch, expected, idx,
                 pending, saved, obs, interfered, overlap, scen, published,
                 busVars, logVars, poolVars>>

\* new TaskAggregate(id)
NewTask(p) ==
  /\ CanStart(p)
  /\ \E id \in Ids : AggStep(p, "new", NewAggregate(id), "ok")

\* TaskAggregate.createNew(...): a thrown error leaves the caller with the
\* instance it held.
CreateNewWith(p, data) ==
  LET r == CreateNew(Uuid, data.title, data.description,
                     IF data.priority = NoPriority THEN MEDIUM ELSE data.priority)
  IN AggStep(p, "createNew", IF r.ok THEN r.agg ELSE agg[p],
             IF r.ok THEN "ok" ELSE r.err)

\* A direct call of TaskAggregate.createNew.
CallCreateNew(p) ==
  /\ CanStart(p)
  /\ \E data \in AggCreateInputs : CreateNewWith(p, data)

\* task.complete()
CallComplete(p) ==
  /\ CanStart(p)
  /\ agg[p] # NoAggregate
  /\ LET r == Complete(agg[p]) IN
     AggStep(p, "complete", r.agg, IF r.ok THEN "ok" ELSE r.err)

\* task.cancel()
CallCancel(p) ==
  /\ CanStart(p)
  /\ agg[p] # NoAggregate
  /\ LET r == Cancel(agg[p]) IN
     AggStep(p, "cancel", r.agg, IF r.ok THEN "ok" ELSE r.err)

\* task.update(updates) with given updates.
UpdateWith(p, updates) ==
  LET r == Update(agg[p], updates) IN
  AggStep(p, "update", r.agg, IF r.ok THEN "ok" ELSE r.err)

\* task.update(updates)
CallUpdate(p) ==
  /\ CanStart(p)
  /\ agg[p] # NoAggregate
  /\ \E updates \in AggUpdateInputs : UpdateWith(p, updates)

AggNext ==
  \E p \in Procs :
    \/ NewTask(p)
    \/ CallCreateNew(p)
    \/ CallComplete(p)
    \/ CallCancel(p)
    \/ CallUpdate(p)

AggSpec == Init /\ [][AggNext]_vars

\* ------------------------------------------------------------------ repository alone

\* A caller of EventSourcedTaskRepository: it loads an aggregate with getById,
\* calls complete or cancel on it and saves it, next to direct callers of
\* saveEvents.

\* save with the test of the buffer removed.
SaveReturnsAtOnceNever(task) == FALSE

\* if (uncommittedEvents.length === 0) return
SaveReturnsAtOnce(task) == task.uncommitted = <<>>

\* taskRepository.getById(id)
Load(p) ==
  /\ CanStart(p)
  /\ \E id \in Ids :
       \A g \in {GetById(event_store, id)} :
         /\ ops' = ops + 1
         /\ op' = [op EXCEPT ![p] = "getById"]
         /\ target' = [target EXCEPT ![p] = id]
         /\ agg' = [agg EXCEPT ![p] = g.agg]
         /\ loaded' = [loaded EXCEPT ![p] = g.agg.version]
         /\ result' = [result EXCEPT ![p] = IF g.ok THEN "ok" ELSE g.err]
  /\ interfered' = [interfered EXCEPT ![p] = FALSE]
  /\ saved' = [saved EXCEPT ![p] = FALSE]
  /\ UNCHANGED <<event_store, appends, pc, batch, expected, idx, pending, obs,
                 overlap, scen, published, busVars, logVars, poolVars>>

\* taskRepository.save(task) on the instance the caller holds, up to
\* pool.connect of saveEvents.
Save(p) ==
  /\ CanStart(p)
  /\ agg[p] # NoAggregate
  /\ ops' = ops + 1
  /\ op' = [op EXCEPT ![p] = "save"]
  /\ target' = [target EXCEPT ![p] = agg[p].id]
  /\ saved' = [saved EXCEPT ![p] = SaveReturnsAtOnce(agg[p])]
  /\ idx' = [idx EXCEPT ![p] = 0]
  /\ IF SaveReturnsAtOnce(agg[p])
     THEN /\ result' = [result EXCEPT ![p] = "ok"]
          /\ UNCHANGED <<pc, batch, expected, overlap, poolVars>>
     ELSE /\ PoolConnect
          /\ pc' = [pc EXCEPT ![p] = "check"]
          /\ result' = [result EXCEPT ![p] = "none"]
          /\ batch' = [batch EXCEPT ![p] = agg[p].uncommitted]
          /\ expected' = [expected EXCEPT ![p] = SaveExpectedVersion(agg[p])]
          /\ overlap' = [q \in Procs |->
               IF q = p
               THEN \E x \in Procs \ {p} : pc[x] \in InSave /\ target[x] = agg[p].id
               ELSE overlap[q] \/ (pc[q] \in InSave /\ target[q] = agg[p].id)]
  /\ UNCHANGED <<event_store, appends, agg, loaded, pending, obs, interfered, scen,
                 published, busVars, logVars>>

RepoNext ==
  \E p \in Procs :
    \/ SaveEvents(p)
    \/ NewTask(p)
    \/ Load(p)
    \/ CallComplete(p)
    \/ CallCancel(p)
    \/ Save(p)
    \/ CheckVersion(p)
    \/ InsertStep(p)
    \/ Commit(p)
    \/ StorageFailure(p)

RepoSpec == Init /\ [][RepoNext]_vars

\* ------------------------------------------------------------------ any batch

\* Direct callers of saveEvents whose events name any aggregate: the method
\* takes aggregateId and events separately and compares nothing.
SaveEventsOfAny(p) ==
  /\ CanStart(p)
  /\ appends < MaxAppends
  /\ appends' = appends + 1
  /\ \E id \in Ids, owner \in Ids, tpls \in TemplateSeqs,
        expectedVersion \in ExpectedVersions :
       SaveEventsWith(p, id, ClientBatch(owner, tpls, expectedVersion),
                      expectedVersion)

BatchNext ==
  \E p \in Procs :
    \/ SaveEventsOfAny(p)
    \/ CheckVersion(p)
    \/ InsertStep(p)
    \/ Commit(p)
    \/ StorageFailure(p)

BatchSpec == Init /\ [][BatchNext]_vars

\* ------------------------------------------------------------------ any kind

\* Direct callers of saveEvents whose events are of any type (eventType is a
\* string and insertEvent stores it as it is), next to callers of getById.
Archived == [eventType |-> "TaskArchived", payload |-> EmptyPayload]

KindSeqs ==
  {<<Created>>, <<Archived>>, <<Completed>>, <<Created, Archived>>,
   <<Archived, Completed>>, <<Created, Completed>>}

SaveEventsOfAnyKind(p) ==
  /\ CanStart(p)
  /\ appends < MaxAppends
  /\ appends' = appends + 1
  /\ \E id \in Ids, tpls \in KindSeqs, expectedVersion \in ExpectedVersions :
       SaveEventsWith(p, id, ClientBatch(id, tpls, expectedVersion),
                      expectedVersion)

KindNext ==
  \E p \in Procs :
    \/ SaveEventsOfAnyKind(p)
    \/ Load(p)
    \/ CheckVersion(p)
    \/ InsertStep(p)
    \/ Commit(p)
    \/ StorageFailure(p)

KindSpec == Init /\ [][KindNext]_vars

\* ------------------------------------------------------------------ event bus

\* Registered listeners (EventHandler): canHandle is the set of event kinds
\* its predicate accepts, failsOn the kinds for which handle throws or
\* rejects, throwsOn the kinds for which the predicate itself throws, hangsOn
\* the kinds for which the promise of handle never settles.
Listener(name, canHandle, failsOn, throwsOn, hangsOn) ==
  [name |-> name, canHandle |-> canHandle, failsOn |-> failsOn,
   throwsOn |-> throwsOn, hangsOn |-> hangsOn]

\* Listeners that keep to the EventHandler interface: canHandle returns a
\* boolean and handle returns a promise that settles.
Listeners ==
  {Listener("L1", KnownEventTypes, {"TaskCreated"}, {}, {}),
   Listener("L2", {"TaskCreated", "TaskCompleted"}, {}, {}, {}),
   Listener("L3", {"TaskCancelled"}, {"TaskCancelled"}, {}, {})}

\* The handle calls processEvent makes for one event on the handlers from
\* index i on: handlers.filter(canHandle) keeps subscription order, and each
\* call is wrapped in try / catch, so its outcome is only recorded.
RECURSIVE Deliveries(_, _, _)
Deliveries(hs, i, event) ==
  IF i > Len(hs) THEN <<>>
  ELSE (IF event.eventType \in hs[i].canHandle
        THEN <<[handler |-> i, name |-> hs[i].name, event |-> event,
                outcome |-> IF event.eventType \in hs[i].failsOn
                            THEN "failed" ELSE "handled"]>>
        ELSE <<>>) \o Deliveries(hs, i + 1, event)

\* processEvent aborting at the first failing listener: a loop that awaits
\* handle without try / catch.
ProcessEventAbortsOnFailure(hs, event) ==
  LET ds == Deliveries(hs, 1, event)
      failed == {j \in 1..Len(ds) : ds[j].outcome = "failed"}
  IN IF failed = {} THEN ds
     ELSE SubSeq(ds, 1, CHOOSE j \in failed : \A k \in failed : j <= k)

\* InMemoryEventBus.processEvent: the handle calls made for one event.
ProcessEventCalls(hs, event) == Deliveries(hs, 1, event)

\* InMemoryEventBus.subscribe
Subscribe(h) ==
  /\ ops < MaxOps
  /\ ops' = ops + 1
  /\ handlers' = Append(handlers, h)
  /\ UNCHANGED <<event_store, appends, pc, op, target, agg, loaded, batch, expected,
                 idx, pending, result, saved, obs, interfered, overlap, scen,
                 published, delivered, running, start, logVars, poolVars>>

\* InMemoryEventBus.publish(events), up to the first processEvent; an empty
\* array returns at once.
PublishBatch(p, events) ==
  /\ ops' = ops + 1
  /\ op' = [op EXCEPT ![p] = "publish"]
  /\ batch' = [batch EXCEPT ![p] = events]
  /\ idx' = [idx EXCEPT ![p] = 0]
  /\ pc' = [pc EXCEPT ![p] = IF events = <<>> THEN "idle" ELSE "process"]
  /\ result' = [result EXCEPT ![p] = IF events = <<>> THEN "ok" ELSE "none"]
  /\ start' = [start EXCEPT ![p] = Len(delivered)]
  /\ UNCHANGED <<event_store, appends, target, agg, loaded, expected, pending, saved,
                 obs, interfered, overlap, scen, published, handlers, delivered,
                 running, logVars, poolVars>>

\* publish called with the batches of TemplateSeqs, for any aggregate.
PublishEvents(p) ==
  /\ CanStart(p)
  /\ \E id \in Ids, tpls \in TemplateSeqs : PublishBatch(p, ClientBatch(id, tpls, 0))

\* One iteration of the loop of publish: await this.processEvent(event).
ProcessEvent(p) ==
  /\ pc[p] = "process"
  /\ LET event == batch[p][idx[p] + 1] IN
     delivered' = delivered \o ProcessEventCalls(handlers, event)
  /\ idx' = [idx EXCEPT ![p] = @ + 1]
  /\ IF idx[p] + 1 = Len(batch[p])
     THEN /\ pc' = [pc EXCEPT ![p] = "idle"]
          /\ result' = [result EXCEPT ![p] = "ok"]
     ELSE UNCHANGED <<pc, result>>
  /\ UNCHANGED <<event_store, ops, appends, op, target, agg, loaded, batch, expected,
                 pending, saved, obs, interfered, overlap, scen, published,
                 handlers, running, start, logVars, poolVars>>

BusNext ==
  \/ \E h \in Listeners : Subscribe(h)
  \/ \E p \in Procs : PublishEvents(p) \/ ProcessEvent(p)

BusSpec == Init /\ [][BusNext]_vars

\* ------------------------------------------------------------------ listeners of any behaviour

\* The bus with listeners that are arbitrary objects: canHandle may throw and
\* the promise of handle may never settle.  processEvent is taken in its
\* steps: the synchronous part (filter, then the map that calls handle on
\* every applicable handler), the settling of each promise, and the
\* continuation of await Promise.allSettled.
AnyListeners ==
  {Listener("L1", KnownEventTypes, {"TaskCreated"}, {}, {}),
   Listener("L4", {"TaskCancelled"}, {}, {"TaskCancelled"}, {}),
   Listener("L5", {"TaskCompleted"}, {}, {}, {"TaskCompleted"})}

\* The batches published to them: the bus reads only the kind of an event.
ListenerBatches ==
  {ClientBatch("a1", tpls, 0) :
     tpls \in {<<Completed>>, <<Cancelled, Completed>>, <<Created, Completed>>}}

PublishToAny(p) ==
  /\ CanStart(p)
  /\ \E events \in ListenerBatches : PublishBatch(p, events)

\* handlers.filter(handler => handler.canHandle(event.eventType)) throws: the
\* call of canHandle is outside every try block.
FilterThrows(hs, event) ==
  \E i \in 1..Len(hs) : event.eventType \in hs[i].throwsOn

\* The handlers filter keeps, by index.
ApplicableHandlers(hs, event) ==
  {i \in 1..Len(hs) : event.eventType \in hs[i].canHandle}

\* The handle calls the map makes, in subscription order.
RECURSIVE Invocations(_, _, _, _)
Invocations(hs, i, event, p) ==
  IF i > Len(hs) THEN <<>>
  ELSE (IF i \in ApplicableHandlers(hs, event)
        THEN <<[handler |-> i, name |-> hs[i].name, event |-> event,
                outcome |-> "invoked", by |-> p]>>
        ELSE <<>>) \o Invocations(hs, i + 1, event, p)

\* The loop of publish moves to the next event, or publish returns.
NextEvent(p) ==
  /\ idx' = [idx EXCEPT ![p] = @ + 1]
  /\ IF idx[p] + 1 = Len(batch[p])
     THEN /\ pc' = [pc EXCEPT ![p] = "idle"]
          /\ result' = [result EXCEPT ![p] = "ok"]
     ELSE /\ pc' = [pc EXCEPT ![p] = "process"]
          /\ UNCHANGED result

\* The synchronous part of processEvent for the next event of the batch.
InvokeHandlers(p) ==
  /\ pc[p] = "process"
  /\ LET event == batch[p][idx[p] + 1] IN
     IF FilterThrows(handlers, event)
     THEN /\ pc' = [pc EXCEPT ![p] = "idle"]
          /\ result' = [result EXCEPT ![p] = "Error"]
          /\ UNCHANGED <<idx, delivered, running>>
     ELSE IF ApplicableHandlers(handlers, event) = {}
     THEN /\ NextEvent(p)
          /\ UNCHANGED <<delivered, running>>
     ELSE /\ delivered' = delivered \o Invocations(handlers, 1, event, p)
          /\ running' = [running EXCEPT ![p] =
               @ \cup {[handler |-> i, event |-> event] :
                         i \in ApplicableHandlers(handlers, event)}]
          /\ pc' = [pc EXCEPT ![p] = "settle"]
          /\ UNCHANGED <<idx, result>>
  /\ UNCHANGED <<event_store, ops, appends, op, target, agg, loaded, batch, expected,
                 pending, saved, obs, interfered, overlap, scen, published,
                 handlers, start, logVars, poolVars>>

\* The promise of one handle call settles; the try / catch around the call
\* turns a rejection into a log entry.
Settle(p) ==
  /\ running[p] # {}
  /\ \E r \in running[p] :
       /\ r.event.eventType \notin handlers[r.handler].hangsOn
       /\ running' = [running EXCEPT ![p] = @ \ {r}]
       /\ delivered' = Append(delivered,
            [handler |-> r.handler, name |-> handlers[r.handler].name,
             event |-> r.event,
             outcome |-> IF r.event.eventType \in handlers[r.handler].failsOn
                         THEN "failed" ELSE "handled",
             by |-> p])
  /\ UNCHANGED <<event_store, ops, appends, pc, op, target, agg, loaded, batch,
                 expected, idx, pending, result, saved, obs, interfered, overlap,
                 scen, published, handlers, start, logVars, poolVars>>

\* processEvent going on while handle calls are still running.
AllSettledAtOnce(p) == TRUE

\* await Promise.allSettled(handlerPromises)
AllSettled(p) == running[p] = {}

\* The continuation of processEvent after the await, up to the next
\* processEvent or the return of publish.
Resume(p) ==
  /\ pc[p] = "settle"
  /\ AllSettled(p)
  /\ NextEvent(p)
  /\ UNCHANGED <<event_store, ops, appends, op, target, agg, loaded, batch, expected,
                 pending, saved, obs, interfered, overlap, scen, published,
                 busVars, logVars, poolVars>>

ListenerNext ==
  \/ \E h \in AnyListeners : Subscribe(h)
  \/ \E p \in Procs : PublishToAny(p) \/ InvokeHandlers(p) \/ Settle(p) \/ Resume(p)

ListenerSpec == Init /\ [][ListenerNext]_vars

\* The event loop runs every continuation that is ready and every promise
\* that settles is delivered.
ListenerFairSpec ==
  /\ ListenerSpec
  /\ \A p \in Procs :
       WF_vars(InvokeHandlers(p)) /\ WF_vars(Settle(p)) /\ WF_vars(Resume(p))

\* ------------------------------------------------------------------ the global log

\* Direct callers of the event store, with column id of table event_store:
\* every INSERT draws the next value of the sequence, also one that fails or
\* is rolled back later.

\* The LIMIT written into the query of getAllEvents.
AllEventsLimit == 1000

\* The cursors and the batch sizes a replay caller asks for.
Positions == 0..2

Limits == 1..2

\* Column id of a row.
IdOf(row) == position[<<row.aggregate_id, row.version>>]

RECURSIVE OrderById(_)
\* ORDER BY id ASC
OrderById(rows) ==
  IF rows = <<>> THEN <<>>
  ELSE LET m == CHOOSE i \in 1..Len(rows) :
                  \A j \in 1..Len(rows) : IdOf(rows[i]) <= IdOf(rows[j])
           rest == [j \in 1..(Len(rows) - 1) |->
                      IF j < m THEN rows[j] ELSE rows[j + 1]]
       IN <<rows[m]>> \o OrderById(rest)

\* SELECT ... FROM event_store WHERE id > $1 ORDER BY id ASC LIMIT 1000: the
\* only parameter of the query is fromPosition.
SelectAllEvents(rows, fromPosition, wanted) ==
  LET After(row) == IdOf(row) > fromPosition
      ordered == OrderById(SelectSeq(rows, After))
  IN IF Len(ordered) <= AllEventsLimit THEN ordered
     ELSE SubSeq(ordered, 1, AllEventsLimit)

\* One iteration of the insert loop, with the id the INSERT draws.
InsertStepWithId(p) ==
  /\ pc[p] = "insert"
  /\ InsertRow(p)
  /\ event_store_id_seq' = event_store_id_seq + 1
  /\ position' =
       IF Len(pending'[p]) > Len(pending[p])
       THEN LET row == pending'[p][Len(pending'[p])]
            IN (<<row.aggregate_id, row.version>> :> event_store_id_seq') @@ position
       ELSE position
  /\ UNCHANGED limit

\* getAllEvents(fromPosition) called by a caller that wants at most `wanted`
\* events: the method has no parameter for it.
GetAllEventsFrom(p, fromPosition, wanted) ==
  /\ ops' = ops + 1
  /\ op' = [op EXCEPT ![p] = "getAllEvents"]
  /\ agg' = [agg EXCEPT ![p] = NoAggregate]
  /\ loaded' = [loaded EXCEPT ![p] = fromPosition]
  /\ limit' = [limit EXCEPT ![p] = wanted]
  /\ obs' = [obs EXCEPT ![p] = SelectAllEvents(Visible(p), fromPosition, wanted)]
  /\ result' = [result EXCEPT ![p] = "ok"]
  /\ overlap' = [overlap EXCEPT ![p] = \E q \in Procs \ {p} : pending[q] # <<>>]
  /\ batch' = [batch EXCEPT ![p] = <<>>]
  /\ expected' = [expected EXCEPT ![p] = 0]
  /\ idx' = [idx EXCEPT ![p] = 0]
  /\ saved' = [saved EXCEPT ![p] = FALSE]
  /\ interfered' = [interfered EXCEPT ![p] = FALSE]
  /\ scen' = [scen EXCEPT ![p] = 0]
  /\ published' = [published EXCEPT ![p] = <<>>]
  /\ UNCHANGED <<event_store, appends, pc, target, pending, busVars,
                 event_store_id_seq, position, poolVars>>

\* PostgreSQLEventStore.getAllEvents
GetAllEvents(p) ==
  /\ CanStart(p)
  /\ \E fromPosition \in Positions, wanted \in Limits :
       GetAllEventsFrom(p, fromPosition, wanted)

LogNext ==
  \E p \in Procs :
    \/ SaveEvents(p)
    \/ GetAllEvents(p)
    \/ CheckVersion(p)
    \/ InsertStepWithId(p)
    \/ Commit(p)
    \/ StorageFailure(p)

LogSpec == Init /\ [][LogNext]_vars

\* ------------------------------------------------------------------ properties

Failures == {"ConflictError", "UniqueViolation", "StorageError"}

\* The caller's operation is over (its saveEvents call, if any, has returned).
Finished(p) == op[p] # "none" /\ pc[p] \notin InSave

\* The use case got as far as repository.save with a non-empty buffer.
ReachedSave(p) == saved[p] \/ agg[p].uncommitted # <<>>

RowsOf(id) == {i \in 1..Len(event_store) : event_store[i].aggregate_id = id}

\* C1: after createTask with a valid input the save has succeeded and
\* getById(created id) gives version 1, status Pending and the trimmed
\* title, description and priority of the creation event.
C1_CreateThenLoad ==
  \A p \in Procs :
    (op[p] = "createTask" /\ Finished(p)
       /\ result[p] \notin {"ValidationError", "StorageError"})
    => LET g == GetById(event_store, target[p]) IN
       /\ saved[p]
       /\ g.ok
       /\ g.agg.version = 1
       /\ g.agg.status = PENDING
       /\ g.agg.title = agg[p].title
       /\ g.agg.description = agg[p].description
       /\ g.agg.priority = agg[p].priority

\* C2: two service mutations that loaded the same entity at the same version
\* and whose saves ran concurrently end with exactly one save succeeded and
\* the other failed with ConflictError.
C2_ExactlyOneWins ==
  \A p, q \in Procs :
    (/\ p # q
     /\ Finished(p) /\ Finished(q)
     /\ op[p] \in ServiceOps \ {"createTask"} /\ op[q] \in ServiceOps \ {"createTask"}
     /\ target[p] = target[q] /\ loaded[p] = loaded[q]
     /\ ReachedSave(p) /\ ReachedSave(q)
     /\ overlap[p] /\ overlap[q]
     /\ result[p] # "StorageError" /\ result[q] # "StorageError")
    => \/ saved[p] /\ result[q] = "ConflictError"
       \/ saved[q] /\ result[p] = "ConflictError"

\* C3: a batch is committed only while the entity's committed version is still
\* the one its writer started from (the events folded by a service writer, the
\* expected version of a direct one), and its rows take the next sequence
\* numbers: a writer whose version is stale at append time never commits.
C3_NoStaleCommit ==
  [][\A p \in Procs :
       (pc[p] = "commit" /\ event_store' # event_store /\ pending'[p] = <<>>)
       => /\ GetCurrentVersion(event_store, target[p]) = loaded[p]
          /\ \A i \in 1..Len(pending[p]) :
               /\ pending[p][i].version = loaded[p] + i
               /\ pending[p][i].aggregate_id = target[p]]_vars

\* A service writer whose loaded version was overtaken by another caller's
\* commit got to its append and ended with a conflict, nothing committed.
C3_Witness ==
  \E p \in Procs :
    /\ op[p] \in ServiceOps /\ pc[p] = "idle"
    /\ result[p] = "ConflictError" /\ interfered[p]
    /\ GetCurrentVersion(event_store, target[p]) > loaded[p]
    /\ \A i \in RowsOf(target[p]) : event_store[i].source = "client"

BatchesWhole ==
  \A i \in 1..Len(event_store) :
    LET r == event_store[i] IN
    \A v \in r.first..(r.first + r.batchLen - 1) :
      \E j \in 1..Len(event_store) :
        /\ event_store[j].aggregate_id = r.aggregate_id
        /\ event_store[j].version = v
        /\ event_store[j].first = r.first
        /\ event_store[j].batchLen = r.batchLen

\* C5: a saveEvents call that fails (version mismatch, unique violation,
\* storage error at any query, abandoned call) leaves the committed log
\* unchanged, and the committed log only ever holds whole batches.
C5_FailedAppendStoresNothing ==
  [][/\ \A p \in Procs :
          (pc[p] \in InSave /\ pc'[p] = "idle" /\ result'[p] \in Failures)
          => event_store' = event_store
     /\ BatchesWhole']_vars

\* A direct append failed after its first INSERT had been done.
C5_Witness ==
  \E p \in Procs :
    /\ op[p] = "saveEvents" /\ pc[p] = "idle"
    /\ result[p] = "StorageError" /\ idx[p] >= 1
    /\ RowsOf(target[p]) = {}

\* C6: what getEvents returned holds, of every batch, all rows above
\* fromVersion or none, has consecutive versions from fromVersion + 1, and is
\* a prefix of the entity's committed history above fromVersion.
C6_ReadsSeeWholeBatches ==
  \A p \in Procs :
    op[p] = "getEvents" =>
      LET o == obs[p]
          from == loaded[p]
          hist == SelectEvents(event_store, target[p], from)
      IN /\ \A i \in 1..Len(o) :
              /\ o[i].aggregate_id = target[p]
              /\ o[i].version = from + i
              /\ \A v \in o[i].first..(o[i].first + o[i].batchLen - 1) :
                   v > from => /\ v <= from + Len(o)
                               /\ o[v - from].first = o[i].first
         /\ Len(o) <= Len(hist)
         /\ o = SubSeq(hist, 1, Len(o))

\* A getEvents ran while another caller's transaction held inserted rows of
\* the same entity, it returned none of them, and the two-event batch has
\* been committed since.
C6_Witness ==
  \E p \in Procs :
    /\ op[p] = "getEvents" /\ overlap[p]
    /\ LET hist == SelectEvents(event_store, target[p], loaded[p]) IN
       /\ Len(obs[p]) < Len(hist)
       /\ hist[Len(obs[p]) + 1].batchLen = 2

\* C7: an aggregate's version equals the number of events applied to it.
C7_VersionIsEventCount ==
  \A p \in Procs : agg[p].version = agg[p].applied

\* C8: the expected version repository.save passes to saveEvents is the
\* version the aggregate had when it was loaded (0 after createNew).
C8_ExpectedIsLoadedVersion ==
  \A p \in Procs :
    (op[p] \in ServiceOps /\ pc[p] = "check") => expected[p] = loaded[p]

\* C9: a service operation ends with ConflictError only if another caller
\* committed events to its entity between its load (or creation) and its save.
C9_ConflictOnlyWhenInterfered ==
  \A p \in Procs :
    (op[p] \in ServiceOps /\ Finished(p) /\ result[p] = "ConflictError")
    => interfered[p]

\* No caller but p has written to or is working on p's entity.
NoOtherWriter(p) ==
  /\ ~interfered[p]
  /\ \A q \in Procs \ {p} : target[q] # target[p]
  /\ \A i \in RowsOf(target[p]) : event_store[i].source # "client"

\* C10: with no concurrent writer, createTask commits and leaves stored
\* version 1; cancelTask then commits and leaves version 2 and status
\* Cancelled; completeTask then fails with the domain-rule error
\* (ValidationError) and the stored version stays 2.
C10_Scenario ==
  \A p \in Procs :
    (Finished(p) /\ NoOtherWriter(p) /\ result[p] # "StorageError")
    => LET v == GetCurrentVersion(event_store, target[p])
           g == GetById(event_store, target[p])
       IN /\ (scen[p] = 1 /\ result[p] # "ValidationError") => (saved[p] /\ v = 1)
          /\ scen[p] = 2 => (saved[p] /\ v = 2 /\ g.agg.status = CANCELLED)
          /\ scen[p] = 3 => (result[p] = "ValidationError" /\ v = 2)

\* The domain fields of an aggregate.
Fields(a) ==
  [status |-> a.status, title |-> a.title, description |-> a.description,
   priority |-> a.priority]

\* C11: an aggregate mutated live has the same status, title, description
\* and priority as a fresh aggregate that folds, by loadFromHistory, the
\* events the live mutations produced, in order.
C11_ReplayEqualsLive ==
  \A p \in Procs :
    agg[p] # NoAggregate =>
      Fields(LoadFromHistory(NewAggregate(agg[p].id), agg[p].uncommitted))
        = Fields(agg[p])

\* createNew with a title and a description to trim, then a changing update,
\* then a terminal mutation: three events, and the fields are not the defaults.
C11_Witness ==
  \E p \in Procs :
    /\ Len(agg[p].uncommitted) = 3
    /\ agg[p].uncommitted[1].eventType = "TaskCreated"
    /\ agg[p].uncommitted[2].eventType = "TaskUpdated"
    /\ agg[p].status # PENDING
    /\ agg[p].title = <<"B">> /\ agg[p].description = <<"d">>
    /\ agg[p].priority = HIGH

\* C13: the first event of an aggregate that had folded no event when it
\* was mutated is a Created event.
C13_FirstEventIsCreated ==
  \A p \in Procs :
    (agg[p].version = 0 /\ agg[p].uncommitted # <<>>)
    => agg[p].uncommitted[1].eventType = "TaskCreated"

Terminal(a) == a.status \in {COMPLETED, CANCELLED}

\* C12: completeTask or cancelTask on an entity whose folded status is
\* Completed or Cancelled ends at once with the domain-rule error
\* (ValidationError): the aggregate is as loaded (empty buffer, same status
\* and version), nothing is appended or published; and complete and cancel
\* throw on every aggregate in a terminal status, leaving it as it was.
C12_TerminalGuard ==
  [][/\ \A p \in Procs, id \in Ids :
          (/\ CanStart(p) /\ ops' = ops + 1 /\ target'[p] = id
           /\ op'[p] \in {"completeTask", "cancelTask"})
          => \A g \in {GetById(event_store, id)} :
               \/ ~(g.ok /\ Terminal(g.agg))
               \/ /\ result'[p] = "ValidationError"
                  /\ agg'[p] = g.agg
                  /\ agg'[p].uncommitted = <<>>
                  /\ pc'[p] = "idle"
                  /\ pending'[p] = <<>>
                  /\ published'[p] = <<>>
                  /\ event_store' = event_store
               \/ ~(CompleteTaskOn(p, id) \/ CancelTaskOn(p, id))
     /\ \A p \in Procs :
          (agg'[p] # agg[p] /\ Terminal(agg'[p]))
          => /\ Complete(agg'[p]) = Thrown("ValidationError", agg'[p])
             /\ Cancel(agg'[p]) = Thrown("ValidationError", agg'[p])]_vars

\* A complete or cancel use case was rejected on an entity whose two stored
\* events end in a terminal one.
C12_Witness ==
  \E p \in Procs :
    /\ op[p] \in {"completeTask", "cancelTask"} /\ pc[p] = "idle"
    /\ result[p] = "ValidationError"
    /\ Terminal(agg[p]) /\ agg[p].version = 2
    /\ Cardinality(RowsOf(target[p])) = 2

\* Every supplied value of updates equals, after trimming, the field of a.
NoOpUpdate(a, updates) ==
  /\ updates.title = Undefined \/ Trim(updates.title) = a.title
  /\ updates.description = Undefined \/ Trim(updates.description) = a.description
  /\ updates.priority = NoPriority \/ updates.priority = a.priority

\* Every supplied value of updates passes the validation of update.
UpdateValid(updates) ==
  /\ updates.title = Undefined \/ ~TitleInvalid(updates.title)
  /\ updates.description = Undefined
     \/ Len(updates.description) <= MaxDescriptionLength

\* C14 as claimed: updateTask with values that all equal the current state
\* after trimming (or with no value) returns without error, the aggregate is
\* as loaded with an empty buffer, and nothing is appended or published.
C14_NoOpUpdateReturns ==
  [][\A p \in Procs, id \in Ids, updates \in UpdateInputs :
       LET g == GetById(event_store, id) IN
       (/\ CanStart(p) /\ UpdateTaskWith(p, id, updates)
        /\ g.ok /\ NoOpUpdate(g.agg, updates))
       => /\ result'[p] = "ok"
          /\ agg'[p] = g.agg
          /\ pc'[p] = "idle" /\ pending'[p] = <<>> /\ published'[p] = <<>>
          /\ event_store' = event_store]_vars

\* C14 amended: such an update produces no event, changes no field and no
\* version, and nothing is appended or published; it returns without error
\* exactly when the status is Pending and the supplied values pass
\* validation, and raises ValidationError otherwise.  (For each updates:
\* it is not a no-op of the loaded aggregate, or the step ends as stated, or
\* the step is not updateTask(id, updates).)
C14_NoOpUpdateAmended ==
  [][\A p \in Procs :
       /\ (CanStart(p) /\ ops' = ops + 1 /\ op'[p] = "updateTask")
          => \A id \in {target'[p]}, g \in {GetById(event_store, target'[p])},
                updates \in UpdateInputs :
                  \/ ~(g.ok /\ NoOpUpdate(g.agg, updates))
                  \/ /\ agg'[p] = g.agg
                     /\ agg'[p].uncommitted = <<>>
                     /\ pc'[p] = "idle" /\ pending'[p] = <<>>
                     /\ published'[p] = <<>>
                     /\ event_store' = event_store
                     /\ result'[p] = IF g.agg.status = PENDING /\ UpdateValid(updates)
                                     THEN "ok" ELSE "ValidationError"
                  \/ ~UpdateTaskWith(p, id, updates)
       /\ (agg'[p] # agg[p] /\ agg'[p] # NoAggregate)
          => \A updates \in UpdateInputs :
               (/\ NoOpUpdate(agg'[p], updates)
                /\ agg'[p].status = PENDING /\ UpdateValid(updates))
               => Update(agg'[p], updates) = Returned(agg'[p])]_vars

\* An updateTask on a stored Pending entity returned without error and
\* without an event.
C14_Witness ==
  \E p \in Procs :
    /\ op[p] = "updateTask" /\ pc[p] = "idle" /\ result[p] = "ok"
    /\ agg[p].status = PENDING /\ agg[p].version >= 1
    /\ agg[p].uncommitted = <<>> /\ agg[p].title = <<"A">>
    /\ published[p] = <<>>

\* C15: when the save of a use case fails (ConflictError, or any other
\* failure of saveEvents) the aggregate is exactly as it was before save:
\* fields, version and a buffer still holding the events that were to be
\* saved; the buffer of an aggregate being saved changes only at COMMIT.
C15_FailedSaveLeavesAggregate ==
  [][\A p \in Procs :
       (op[p] \in ServiceOps /\ pc[p] \in InSave)
       => /\ (pc'[p] = "idle" /\ result'[p] \in Failures)
             => /\ agg'[p] = agg[p]
                /\ agg'[p].uncommitted = batch[p]
                /\ batch[p] # <<>>
                /\ ~saved'[p]
          /\ agg'[p] # agg[p]
             => /\ pc[p] = "commit"
                /\ event_store' = event_store \o pending[p]
                /\ saved'[p]]_vars

\* A use case that loaded a stored entity ended with ConflictError and its
\* aggregate still holds the event it tried to save.
C15_Witness ==
  \E p \in Procs :
    /\ op[p] \in ServiceOps /\ pc[p] = "idle"
    /\ result[p] = "ConflictError"
    /\ agg[p].version >= 1
    /\ Len(agg[p].uncommitted) = 1
    /\ agg[p].status # PENDING

\* The event read back from a row is the appended event: kind, payload,
\* metadata source and aggregate id.
SameEvent(read, appended) ==
  /\ read.aggregateId = appended.aggregateId
  /\ read.eventType = appended.eventType
  /\ read.payload = appended.payload
  /\ read.source = appended.source

LoadsById(p, id) ==
  \/ CompleteTaskOn(p, id)
  \/ CancelTaskOn(p, id)
  \/ \E updates \in UpdateInputs : UpdateTaskWith(p, id, updates)

\* C18: getById of an identity with no stored event throws NotFoundError and
\* gives no aggregate; with N >= 1 stored events it returns an aggregate of
\* version N with an empty buffer.  Stated of getById on every reachable log
\* and of the getById every complete / cancel / update use case starts with.
C18_GetByIdVersion ==
  [][/\ (event_store' # event_store \/ ops = 0)
        => \A id \in Ids : \A g \in {GetById(event_store', id)} :
             LET n == Cardinality({i \in 1..Len(event_store') :
                                     event_store'[i].aggregate_id = id})
             IN IF n = 0 THEN g = Thrown("NotFoundError", NoAggregate)
                ELSE /\ g.ok /\ g.agg.id = id
                     /\ g.agg.version = n /\ g.agg.uncommitted = <<>>
     /\ \A p \in Procs, id \in Ids :
          (/\ CanStart(p) /\ ops' = ops + 1 /\ target'[p] = id
           /\ op'[p] \in {"completeTask", "cancelTask", "updateTask"})
          => \/ IF RowsOf(id) = {}
                THEN /\ result'[p] = "NotFoundError"
                     /\ agg'[p] = NoAggregate
                     /\ pc'[p] = "idle"
                ELSE /\ result'[p] # "NotFoundError"
                     /\ agg'[p].id = id
                     /\ loaded'[p] = Cardinality(RowsOf(id))
             \/ ~LoadsById(p, id)]_vars

\* One use case got NotFoundError for an identity without events and another
\* loaded an entity of two stored events at version 2.
C18_Witness ==
  \E p, q \in Procs :
    /\ op[p] \in ServiceOps /\ result[p] = "NotFoundError"
    /\ agg[p] = NoAggregate /\ RowsOf(target[p]) = {}
    /\ op[q] \in ServiceOps /\ loaded[q] = 2 /\ agg[q].version = 2
    /\ Cardinality(RowsOf(target[q])) = 2

C20_PublishOnlyAfterSave ==
  [][\A p \in Procs :
       op'[p] \in ServiceOps
       => /\ published'[p] # <<>> => saved'[p]
          /\ (published'[p] # published[p] /\ published'[p] # <<>>)
             => /\ pc[p] = "commit"
                /\ event_store' = CommitRows(event_store, pending[p])
                /\ LET committed == SelectEvents(pending[p], target[p], 0) IN
                   /\ Len(committed) = Len(published'[p])
                   /\ \A i \in 1..Len(committed) :
                        SameEvent(committed[i], published'[p][i])
          /\ (pc'[p] = "idle" /\ result'[p] # "ok") => published'[p] = <<>>]_vars

\* One use case was rejected by the aggregate and another had its save
\* rejected with its event still buffered; neither published anything.
C20_Witness ==
  \E p, q \in Procs :
    /\ op[p] \in ServiceOps /\ pc[p] = "idle" /\ result[p] = "ConflictError"
    /\ agg[p].uncommitted # <<>> /\ published[p] = <<>>
    /\ op[q] \in ServiceOps /\ pc[q] = "idle" /\ result[q] = "ValidationError"
    /\ published[q] = <<>>

\* The argument data violates a field constraint of createNew.
CreateRejected(data) ==
  \/ Len(Trim(data.title)) = 0
  \/ Len(data.title) > MaxTitleLength
  \/ data.description # Undefined /\ Len(data.description) > MaxDescriptionLength

\* C21: createNew with a title that is empty after trimming, a title longer
\* than 255 characters or a description longer than 1000 characters throws
\* ValidationError and gives the caller no aggregate and no event; with any
\* other argument it returns an aggregate in Pending whose buffer holds
\* exactly one TaskCreated event with version 1.
C21_CreateNewValidates ==
  [][\A p \in Procs :
       (CanStart(p) /\ ops' = ops + 1 /\ op'[p] = "createNew")
       => \A data \in AggCreateInputs :
            \/ ~CreateNewWith(p, data)
            \/ IF CreateRejected(data)
               THEN /\ result'[p] = "ValidationError"
                    /\ agg'[p] = agg[p]
               ELSE /\ result'[p] = "ok"
                    /\ agg'[p].status = PENDING
                    /\ Len(agg'[p].uncommitted) = 1
                    /\ agg'[p].uncommitted[1].eventType = "TaskCreated"
                    /\ agg'[p].uncommitted[1].version = 1
                    /\ agg'[p].uncommitted[1].aggregateId = agg'[p].id
                    /\ agg'[p].uncommitted[1].payload.title = Trim(data.title)
                    /\ agg'[p].title = Trim(data.title)]_vars

\* One createNew call was rejected and left its caller without an aggregate;
\* another returned a Pending aggregate whose title has the maximum length.
C21_Witness ==
  \E p, q \in Procs :
    /\ op[p] = "createNew" /\ result[p] = "ValidationError" /\ agg[p] = NoAggregate
    /\ op[q] = "createNew" /\ result[q] = "ok" /\ agg[q].status = PENDING
    /\ Len(agg[q].title) = MaxTitleLength
    /\ Len(agg[q].uncommitted) = 1

\* C22: in every step the committed history of every entity (its rows in
\* version order, with kind, payload and version) is a prefix of its
\* committed history after the step: stored events are never changed or
\* removed.
C22_StoredEventsImmutable ==
  [][event_store' # event_store
     => \A id \in Ids :
          \A before \in {SelectEvents(event_store, id, 0)},
             after \in {SelectEvents(event_store', id, 0)} :
            /\ Len(before) <= Len(after)
            /\ SubSeq(after, 1, Len(before)) = before]_vars

\* An append on an entity that already holds events was rolled back after
\* its first INSERT, and the entity still holds events.
C22_Witness ==
  \E p \in Procs :
    /\ op[p] = "saveEvents" /\ pc[p] = "idle"
    /\ result[p] \in {"StorageError", "UniqueViolation"} /\ idx[p] >= 1
    /\ RowsOf(target[p]) # {}

\* C23: getEvents(id, fromVersion) returns exactly the committed rows of id
\* whose version is greater than fromVersion, each once, in ascending version
\* order, and returns normally with no row for an id that has no events.
C23_ReadEventsExact ==
  [][\A p \in Procs :
       (CanStart(p) /\ ops' = ops + 1 /\ op'[p] = "getEvents")
       => \A id \in {target'[p]}, fromVersion \in {loaded'[p]} :
            \/ ~GetEventsFrom(p, id, fromVersion)
            \/ LET r == obs'[p]
                   stored == {i \in RowsOf(id) : event_store[i].version > fromVersion}
               IN /\ result'[p] = "ok"
                  /\ Len(r) = Cardinality(stored)
                  /\ {r[i] : i \in 1..Len(r)} = {event_store[i] : i \in stored}
                  /\ \A i \in 1..(Len(r) - 1) : r[i].version < r[i + 1].version]_vars

\* One getEvents with fromVersion 1 returned only the second of two stored
\* events; another returned no row for an id without events.
C23_Witness ==
  \E p, q \in Procs :
    /\ op[p] = "getEvents" /\ loaded[p] = 1 /\ result[p] = "ok"
    /\ Cardinality(RowsOf(target[p])) = 2
    /\ Len(obs[p]) = 1 /\ obs[p][1].version = 2
    /\ op[q] = "getEvents" /\ result[q] = "ok" /\ obs[q] = <<>>
    /\ RowsOf(target[q]) = {}

\* C24: for every id, aggregateExists is true iff a row of id is stored;
\* getCurrentVersion is the highest stored version of id, or 0 when there is
\* none; and aggregateExists(id), getCurrentVersion(id) > 0 and getById(id)
\* not throwing NotFoundError are equivalent.
C24_ExistsIffVersionPositive ==
  \A id \in Ids :
    \A v \in {GetCurrentVersion(event_store, id)},
       e \in {AggregateExists(event_store, id)},
       g \in {GetById(event_store, id)} :
      /\ e <=> RowsOf(id) # {}
      /\ \A i \in RowsOf(id) : event_store[i].version <= v
      /\ IF RowsOf(id) = {} THEN v = 0
         ELSE \E i \in RowsOf(id) : event_store[i].version = v
      /\ e <=> v > 0
      /\ e <=> g.err # "NotFoundError"

\* One id has two stored events and the other none, after an append with a
\* negative or stale expected version was refused.
C24_Witness ==
  \E id, other \in Ids :
    /\ Cardinality(RowsOf(id)) = 2
    /\ AggregateExists(event_store, id)
    /\ GetCurrentVersion(event_store, id) = 2
    /\ RowsOf(other) = {}
    /\ ~AggregateExists(event_store, other)
    /\ \E p \in Procs : target[p] = other /\ result[p] = "ConflictError"

\* C25: getAllEvents returns stored events of all aggregates in the order of
\* their insertion (column id), only those with an id after fromPosition, the
\* earliest ones first, and never more than the limit its caller supplied.
C25_ReadAllWithinLimit ==
  [][\A p \in Procs :
       \A fromPosition \in {loaded'[p]}, wanted \in {limit'[p]} :
         \/ ~(CanStart(p) /\ GetAllEventsFrom(p, fromPosition, wanted))
         \/ \A r \in {obs'[p]} :
              LET eligible == {i \in 1..Len(event_store) :
                                IdOf(event_store[i]) > fromPosition}
              IN /\ result'[p] = "ok"
                 /\ \A i \in 1..Len(r) :
                      \E j \in eligible : event_store[j] = r[i]
                 /\ \A i, j \in 1..Len(r) : i < j => IdOf(r[i]) < IdOf(r[j])
                 /\ \A j \in eligible :
                      \/ \E i \in 1..Len(r) : r[i] = event_store[j]
                      \/ /\ Len(r) = wanted
                         /\ \A i \in 1..Len(r) : IdOf(r[i]) < IdOf(event_store[j])
                 /\ Len(r) <= wanted]_vars

\* C26: while a saveEvents call is between its version check and the end of
\* its inserts, no other saveEvents call for the same aggregate takes its
\* version check or an insert; and no two calls in flight for one aggregate
\* have both passed the check with the same expected version.
C26_CheckAndAppendAtomic ==
  [][\A p, q \in Procs :
       p # q /\ target[p] = target[q] =>
         /\ pc[p] = "insert" /\ pc[q] \in {"check", "insert"}
              => pc'[q] = pc[q] /\ pending'[q] = pending[q]
         /\ ~(/\ pc'[p] \in {"insert", "commit"}
              /\ pc'[q] \in {"insert", "commit"}
              /\ target'[p] = target'[q]
              /\ expected'[p] = expected'[q])]_vars

\* What C28 has the payload of the update event carry for one field: the
\* trimmed value when it was supplied and differs from the current one.
ChangedValue(supplied, current, absent) ==
  IF supplied # absent /\ Trim(supplied) # current THEN Trim(supplied) ELSE absent

\* C28: an update that changes something buffers exactly one TaskUpdated
\* event, whose payload has a value for the fields whose trimmed value
\* differs from the current state and for no other field.
C28_PayloadOnlyChangedFields ==
  [][\A p \in Procs, updates \in AggUpdateInputs :
       (/\ CanStart(p) /\ agg[p] # NoAggregate
        /\ UpdateWith(p, updates)
        /\ result'[p] = "ok" /\ ~NoOpUpdate(agg[p], updates))
       => \A a \in {agg[p]}, b \in {agg'[p]} :
            /\ Len(b.uncommitted) = Len(a.uncommitted) + 1
            /\ SubSeq(b.uncommitted, 1, Len(a.uncommitted)) = a.uncommitted
            /\ \A e \in {b.uncommitted[Len(b.uncommitted)]} :
                 /\ e.eventType = "TaskUpdated"
                 /\ e.payload.title
                      = ChangedValue(updates.title, a.title, Undefined)
                 /\ e.payload.description
                      = ChangedValue(updates.description, a.description, Undefined)
                 /\ e.payload.priority
                      = IF updates.priority # a.priority
                        THEN updates.priority ELSE NoPriority]_vars

\* createNew accepts the value as a title / as a description.
CreateAcceptsTitle(title) == CreateNew("a1", title, Undefined, NoPriority).ok

CreateAcceptsDescription(description) ==
  CreateNew("a1", <<"A">>, description, NoPriority).ok

\* C29: update returns normally only when the status is PENDING and every
\* supplied title and description is one createNew accepts; otherwise it
\* throws ValidationError, buffers no event and changes no field and no
\* version of the aggregate.
C29_UpdateGuards ==
  [][\A p \in Procs, updates \in AggUpdateInputs :
       (CanStart(p) /\ agg[p] # NoAggregate /\ UpdateWith(p, updates))
       => IF result'[p] = "ok"
          THEN /\ agg[p].status = PENDING
               /\ updates.title # Undefined => CreateAcceptsTitle(updates.title)
               /\ updates.description # Undefined
                    => CreateAcceptsDescription(updates.description)
          ELSE /\ result'[p] = "ValidationError"
               /\ agg'[p] = agg[p]
               /\ \/ agg[p].status # PENDING
                  \/ updates.title # Undefined /\ ~CreateAcceptsTitle(updates.title)
                  \/ /\ updates.description # Undefined
                     /\ ~CreateAcceptsDescription(updates.description)]_vars

\* An update was refused on an aggregate that was created and completed; its
\* two buffered events are still there.
C29_Witness ==
  \E p \in Procs :
    /\ op[p] = "update" /\ result[p] = "ValidationError"
    /\ agg[p].status = COMPLETED /\ Len(agg[p].uncommitted) = 2
    /\ agg[p].title = <<"A">>

\* C30: when createNew, complete, cancel or update throws in a use case, the
\* use case ends there with that error (ValidationError) for its caller:
\* saveEvents is not called (no transaction, no batch, save has not
\* returned), publish is not called, and the stored events are unchanged.
C30_RejectedMutationNoEffect ==
  [][\A p \in Procs :
       (CanStart(p) /\ ops' = ops + 1 /\ op'[p] \in ServiceOps)
       => \A id \in {target'[p]}, g \in {GetById(event_store, target'[p])} :
            \/ /\ result'[p] = "ValidationError"
               /\ pc'[p] = "idle"
               /\ batch'[p] = <<>> /\ pending'[p] = <<>> /\ ~saved'[p]
               /\ published'[p] = <<>>
               /\ appends' = appends
               /\ event_store' = event_store
            \/ ~(\/ /\ op'[p] = "createTask" /\ FreshIds # {}
                    /\ \E data \in CreateInputs :
                      \A r \in {CreateNew(Uuid, data.title, data.description,
                                          IF data.priority = NoPriority
                                          THEN MEDIUM ELSE data.priority)} :
                        ~r.ok /\ Proceed(p, "createTask", Uuid, 0, r)
                 \/ g.ok /\ ~Complete(g.agg).ok /\ CompleteTaskOn(p, id)
                 \/ g.ok /\ ~Cancel(g.agg).ok /\ CancelTaskOn(p, id)
                 \/ \E updates \in UpdateInputs :
                      g.ok /\ ~Update(g.agg, updates).ok
                      /\ UpdateTaskWith(p, id, updates))]_vars

\* A createTask with a blank title and an updateTask on a completed or
\* cancelled entity were both rejected, and the two stored events of that
\* entity are still there.
C30_Witness ==
  \E p, q \in Procs :
    /\ op[p] = "createTask" /\ result[p] = "ValidationError" /\ pc[p] = "idle"
    /\ op[q] = "updateTask" /\ result[q] = "ValidationError" /\ pc[q] = "idle"
    /\ Terminal(agg[q]) /\ Cardinality(RowsOf(target[q])) = 2
    /\ published[p] = <<>> /\ published[q] = <<>>

\* C31: a use case enters saveEvents only as part of a newly started
\* operation, so at most once; while its saveEvents call runs, the batch, the
\* expected version and the number of events folded at load stay as they
\* were (no reload); and when the version check of its call fails, the use
\* case ends there with ConflictError for its caller, the aggregate as it
\* was before save.
C31_AppendOnceNoRetry ==
  [][\A p \in Procs :
       /\ (pc'[p] = "check" /\ pc[p] # "check")
          => (pc[p] = "idle" /\ ops' = ops + 1)
       /\ (pc[p] \in InSave /\ pc'[p] \in InSave)
          => /\ expected'[p] = expected[p] /\ batch'[p] = batch[p]
             /\ loaded'[p] = loaded[p] /\ target'[p] = target[p]
       /\ (pc[p] = "check" /\ pc'[p] # "insert" /\ op[p] \in ServiceOps
           /\ ~VersionMatches(GetCurrentVersion(Visible(p), target[p]), expected[p]))
          => \/ /\ pc'[p] = "idle" /\ result'[p] = "ConflictError"
                /\ agg'[p] = agg[p] /\ loaded'[p] = loaded[p]
                /\ pending'[p] = <<>> /\ published'[p] = <<>>
                /\ event_store' = event_store /\ ops' = ops
             \/ ~CheckVersion(p)]_vars

\* A cancelTask or completeTask on a stored entity ended with ConflictError:
\* its one event is still buffered and nothing was added to the two stored
\* events.
C31_Witness ==
  \E p \in Procs :
    /\ op[p] \in {"cancelTask", "completeTask", "updateTask"}
    /\ pc[p] = "idle" /\ result[p] = "ConflictError"
    /\ Len(agg[p].uncommitted) = 1 /\ loaded[p] = 1
    /\ Cardinality(RowsOf(target[p])) = 1

\* C32: repository.save of an aggregate whose buffer is empty returns at
\* once without error: no saveEvents call (no transaction, no batch), the
\* aggregate and the stored events unchanged; and the aggregate a successful
\* save leaves behind is one that the next save returns on at once.
C32_SaveOfEmptyBufferIsNoOp ==
  [][\A p \in Procs :
       /\ (/\ CanStart(p) /\ ops' = ops + 1 /\ op'[p] = "save"
           /\ agg[p] # NoAggregate /\ agg[p].uncommitted = <<>>)
          => \/ /\ result'[p] = "ok" /\ pc'[p] = "idle"
                /\ agg'[p] = agg[p]
                /\ batch'[p] = <<>> /\ pending'[p] = <<>>
                /\ appends' = appends
                /\ event_store' = event_store
             \/ ~Save(p)
       /\ (agg'[p] # agg[p] /\ agg'[p] # NoAggregate)
          => \A a \in {SaveOutcome(agg'[p], TRUE)} :
               /\ SaveReturnsAtOnce(a)
               /\ a.version = agg'[p].version /\ a.status = agg'[p].status]_vars

\* An aggregate loaded from two stored events was saved as loaded: save
\* returned, and the two events are all that is stored.
C32_Witness ==
  \E p \in Procs :
    /\ op[p] = "save" /\ pc[p] = "idle" /\ result[p] = "ok"
    /\ agg[p].version = 2 /\ agg[p].uncommitted = <<>>
    /\ Len(event_store) = 2 /\ Cardinality(RowsOf(agg[p].id)) = 2

\* C39: every row a saveEvents call inserts is stored under the aggregate id
\* the call named and checked the version of, and after every step the
\* stored versions of every aggregate are exactly 1..N, each once.
C39_StoredUnderCheckedId ==
  [][/\ \A p \in Procs :
          (pc[p] = "insert" /\ Len(pending'[p]) > Len(pending[p]))
          => pending'[p][Len(pending'[p])].aggregate_id = target[p]
     /\ event_store' # event_store
        => \A id \in Ids :
             \A rows \in {SelectEvents(event_store', id, 0)} :
               \A i \in 1..Len(rows) : rows[i].version = i]_vars

\* The highest stored version of id, 0 when it has no stored event.
StoredVersion(id) ==
  IF RowsOf(id) = {} THEN 0
  ELSE CHOOSE v \in {event_store[i].version : i \in RowsOf(id)} :
         \A i \in RowsOf(id) : event_store[i].version <= v

\* No other saveEvents call on the aggregate of p's call is in flight.
AloneOnTarget(p) ==
  \A q \in Procs \ {p} : pc[q] \in InSave => target[q] # target[p]

FirstUnknown(events) ==
  IF \A i \in 1..Len(events) : events[i].eventType \in KnownEventTypes THEN 0
  ELSE CHOOSE i \in 1..Len(events) :
         /\ events[i].eventType \notin KnownEventTypes
         /\ \A j \in 1..(i - 1) : events[j].eventType \in KnownEventTypes

\* C34: when the stored history of an aggregate holds an event of a kind other
\* than TaskCreated, TaskCompleted, TaskCancelled and TaskUpdated, the fold
\* stops at the first such event (the events before it were applied, none
\* after it) with an error that is none of the domain errors, and getById gives
\* its caller that error and no aggregate.
C34_UnknownKindFailsLoad ==
  [][\A p \in Procs :
       (CanStart(p) /\ op'[p] = "getById" /\ ops' # ops)
         => \/ ~Load(p)
            \/ \A events \in {[i \in 1..Len(SelectEvents(event_store, target'[p], 0))
                                 |-> RowToEvent(SelectEvents(event_store, target'[p], 0)[i])]} :
                 \A k \in {FirstUnknown(events)} :
                   k # 0
                     => \A h \in {TryLoadFromHistory(NewAggregate(target'[p]), events)} :
                          /\ ~h.ok
                          /\ h.err \notin DomainErrors
                          /\ h.agg.applied = k
                          /\ h.agg.version = k - 1
                          /\ result'[p] = h.err
                          /\ agg'[p] = NoAggregate]_vars

C34_Witness ==
  \E p \in Procs :
    /\ op[p] = "getById" /\ pc[p] = "idle"
    /\ result[p] = "Error" /\ agg[p] = NoAggregate
    /\ \E i \in 1..Len(event_store) :
         /\ event_store[i].aggregate_id = target[p]
         /\ event_store[i].event_type = "TaskArchived"
         /\ event_store[i].version = 2

\* C35: publish never raises, whatever a registered listener does in handle
\* or in canHandle: every publish call that has returned to its caller has
\* returned normally.
C35_PublishNeverRaises ==
  \A p \in Procs : (op[p] = "publish" /\ pc[p] = "idle") => result[p] = "ok"

\* C36: a publish call that has started eventually returns or raises, also
\* when a listener never finishes.
C36_PublishEventuallyReturns ==
  \A p \in Procs : (pc[p] \in {"process", "settle"}) ~> (pc[p] = "idle")

\* C38: within one publish call the listeners are invoked for the events in
\* the order of the batch, for one event at a time, and when listeners are
\* invoked for an event every handle call the same publish made for the
\* events before it has settled (handled or failed).
C38_InOrderAfterSettled ==
  [][\A p \in Procs :
       (/\ pc[p] = "process"
        /\ Len(delivered') > Len(delivered)
        /\ delivered'[Len(delivered')].by = p
        /\ delivered'[Len(delivered')].outcome = "invoked")
         => LET mine == {j \in (start[p] + 1)..Len(delivered) : delivered[j].by = p}
                event == delivered'[Len(delivered')].event
            IN /\ \A j \in (Len(delivered) + 1)..Len(delivered') :
                    delivered'[j].event = event /\ delivered'[j].by = p
               /\ event.version \in 1..Len(batch[p])
               /\ event = batch[p][event.version]
               /\ \A j \in mine : delivered[j].event.version < event.version
               /\ \A j \in mine :
                    delivered[j].outcome = "invoked"
                      => \E k \in mine :
                           /\ k > j
                           /\ delivered[k].handler = delivered[j].handler
                           /\ delivered[k].event = delivered[j].event
                           /\ delivered[k].outcome \in {"handled", "failed"}]_vars

C38_Witness ==
  \E p \in Procs :
    /\ op[p] = "publish" /\ pc[p] = "idle" /\ result[p] = "ok"
    /\ Len(batch[p]) = 2
    /\ \E a, b, c, d \in (start[p] + 1)..Len(delivered) :
         /\ a < b /\ b < c /\ c < d
         /\ \A j \in {a, b, c, d} : delivered[j].by = p
         /\ delivered[a].outcome = "invoked" /\ delivered[a].event = batch[p][1]
         /\ delivered[b].outcome = "invoked" /\ delivered[b].event = batch[p][1]
         /\ delivered[a].handler # delivered[b].handler
         /\ delivered[c].outcome = "failed" /\ delivered[c].event = batch[p][1]
         /\ delivered[d].outcome = "invoked" /\ delivered[d].event = batch[p][2]

\* C37: every event in the uncommitted buffer of an aggregate carries the
\* sequence number saveEvents gives it on save: the version the aggregate had
\* when its caller got it (0 for an instance not loaded from history) plus
\* the 1-based position of the event in the buffer.
C37_BufferedVersionIsLogPosition ==
  \A p \in Procs :
    \A i \in 1..Len(agg[p].uncommitted) :
      agg[p].uncommitted[i].version = loaded[p] + i

\* C40: every saveEvents and getEvents call gives back the client it took
\* from the pool exactly once, however it ends (COMMIT, version conflict,
\* unique violation, a query or the ROLLBACK rejected): the clients out of the
\* pool are exactly those of the calls in progress, at most PoolMax, and none
\* when no call is in progress.
C40_ClientsReleasedOnEveryPath ==
  /\ checkedOut = Cardinality({p \in Procs : pc[p] \in InSave})
  /\ checkedOut \in 0..PoolMax

C40_Witness ==
  /\ checkedOut = 0
  /\ \E p, q \in Procs :
       /\ p # q
       /\ op[p] \in {"saveEvents", "save"} /\ result[p] = "ok" /\ idx[p] = 0
       /\ \E i \in 1..Len(event_store) : event_store[i].aggregate_id = target[p]
       /\ op[q] = "saveEvents" /\ result[q] \in {"ConflictError", "StorageError"}
====
